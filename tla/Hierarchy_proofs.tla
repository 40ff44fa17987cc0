------------------------- MODULE Hierarchy_proofs --------------------------
(***************************************************************************)
(* The contraction hierarchy is exact, for any network, metric, order of   *)
(* the parallel tasks and of the partial recomputation.  A dataset that is *)
(* imported and updated orders all its edges, so what serves it is exact.  *)
(***************************************************************************)
EXTENDS DatasetUpdate, CollectionLemmas

-----------------------------------------------------------------------------
(* The elimination tree and the tasks cut out of it.                       *)

\* States are numbered from 1; 0 names none.
LEMMA Ranks == N \in Nat /\ N > 0 /\ States = 1..N /\ NoState = 0 /\ NoState \notin States
BY HierarchyAssumption DEF States, NoState

NoTree == [root |-> [u \in States |-> u], parent |-> [u \in States |-> NoState]]

Adopt(old, v) ==
  LET adopted == {old.root[w] : w \in LowerNeighbours(v)}
  IN  [root   |-> [u \in States |-> IF old.root[u] \in adopted THEN v ELSE old.root[u]],
       parent |-> [u \in States |-> IF u \in adopted THEN v ELSE old.parent[u]]]

IsForest(f) == f = [v \in 0..N |-> IF v = 0 THEN NoTree ELSE Adopt(f[v - 1], v)]

Trees == [root : [States -> States], parent : [States -> 0..N]]

\* What a step of the tree does to roots and parents.
LEMMA AdoptIs ==
  ASSUME NEW t \in Trees, NEW v \in 1..N
  PROVE  /\ Adopt(t, v) \in Trees
         /\ \A u \in States : Adopt(t, v).root[u] =
              IF \E w \in LowerNeighbours(v) : t.root[u] = t.root[w] THEN v ELSE t.root[u]
         /\ \A u \in States : Adopt(t, v).parent[u] =
              IF \E w \in LowerNeighbours(v) : u = t.root[w] THEN v ELSE t.parent[u]
<1> DEFINE adopted == {t.root[w] : w \in LowerNeighbours(v)}
           R == [u \in States |-> IF t.root[u] \in adopted THEN v ELSE t.root[u]]
           P == [u \in States |-> IF u \in adopted THEN v ELSE t.parent[u]]
<1>1. Adopt(t, v) = [root |-> R, parent |-> P]
  BY Zenon DEF Adopt
<1>2. t.root \in [States -> States] /\ t.parent \in [States -> 0..N] /\ v \in States /\ v \in 0..N
  BY Ranks DEF Trees
<1>3. R \in [States -> States] /\ P \in [States -> 0..N]
  BY <1>2
<1>4. \A u \in States : R[u] = IF \E w \in LowerNeighbours(v) : t.root[u] = t.root[w] THEN v ELSE t.root[u]
  BY Zenon
<1>5. \A u \in States : P[u] = IF \E w \in LowerNeighbours(v) : u = t.root[w] THEN v ELSE t.parent[u]
  BY Zenon
<1> HIDE DEF R, P
<1> QED BY <1>1, <1>3, <1>4, <1>5 DEF Trees

\* The steps of the tree as a sequence of forests.
LEMMA ForestGrows ==
  \E f : /\ EliminationParent = f[N].parent
         /\ f \in [0..N -> Trees] /\ f[0] = NoTree
         /\ \A v \in 1..N : f[v] = Adopt(f[v - 1], v)
<1> DEFINE next == [p \in (1..N) \X Trees |-> Adopt(p[2], p[1])]
           forest == CHOOSE f : IsForest(f)
<1>1. NoTree \in Trees
  <2>1. [u \in States |-> u] \in [States -> States] /\ [u \in States |-> NoState] \in [States -> 0..N]
    BY Ranks
  <2> QED BY <2>1 DEF NoTree, Trees
<1>2. next \in [(1..N) \X Trees -> Trees]
  <2>1. \A p \in (1..N) \X Trees : Adopt(p[2], p[1]) \in Trees
    <3>1. \A p \in (1..N) \X Trees : p[2] \in Trees /\ p[1] \in 1..N
      OBVIOUS
    <3> QED BY <3>1, AdoptIs
  <2> QED BY <2>1
<1>3. PICK f : Follows(f, N, Trees, NoTree, next)
  <2>1. N \in Nat
    BY Ranks
  <2> HIDE DEF next, forest
  <2> QED BY <1>1, <1>2, <2>1, Stepwise
<1>4. /\ f \in [0..N -> Trees] /\ f[0] = NoTree
      /\ \A v \in 1..N : f[v] = Adopt(f[v - 1], v)
  <2>0. f \in [0..N -> Trees] /\ f[0] = NoTree /\ \A v \in 1..N : f[v] = next[<<v, f[v - 1]>>]
    BY <1>3, Zenon DEF Follows
  <2>1. \A v \in 1..N : f[v - 1] \in Trees
    BY <2>0, Ranks
  <2> QED BY <2>0, <2>1
<1>5. IsForest(f)
  <2>1. \A v \in 0..N : f[v] = IF v = 0 THEN NoTree ELSE Adopt(f[v - 1], v)
    <3>1. \A v \in 0..N : v # 0 => v \in 1..N
      BY Ranks
    <3> QED BY <1>4, <3>1
  <2>2. f = [v \in 0..N |-> f[v]]
    BY <1>4
  <2> HIDE DEF forest, next
  <2> QED BY <2>1, <2>2, Zenon DEF IsForest
<1>6. IsForest(forest)
  BY <1>5, Zenon
<1>7. EliminationParent = forest[N].parent
  BY Zenon DEF EliminationParent, IsForest, NoTree, Adopt
<1> HIDE DEF forest, next
<1>8. \A v \in 0..N : forest[v] = IF v = 0 THEN NoTree ELSE Adopt(forest[v - 1], v)
  BY <1>6, Zenon DEF IsForest
<1> DEFINE T == {v \in Nat : v <= N => forest[v] = f[v]}
<1>9. 0 \in T
  BY <1>4, <1>8, Ranks
<1>10. ASSUME NEW v \in Nat, v \in T PROVE v + 1 \in T
  <2>1. v + 1 <= N => v <= N /\ v + 1 \in 0..N /\ v + 1 \in 1..N /\ v + 1 # 0 /\ (v + 1) - 1 = v
    BY Ranks
  <2> QED BY <1>4, <1>8, <1>10, <2>1
<1>11. \A v \in 0..N : forest[v] = f[v]
  <2>1. Nat \subseteq T
    <3> HIDE DEF T
    <3> QED BY <1>9, <1>10, StepByStep
  <2> QED BY <2>1, Ranks
<1>12. forest[N] = f[N]
  BY <1>11, Ranks
<1> QED BY <1>4, <1>7, <1>12

\* What holds of the tree once the states up to v have been linked.
TreeShape(t, v) ==
  /\ t \in Trees
  /\ \A u \in States :
       /\ t.parent[t.root[u]] = NoState
       /\ u <= v => t.root[u] <= v
       /\ u > v => t.root[u] = u /\ t.parent[u] = NoState
       /\ t.parent[u] # NoState => u < t.parent[u] /\ t.parent[u] <= v

\* A step of the tree keeps its shape.
LEMMA AdoptKeepsShape ==
  ASSUME NEW v \in 1..N, NEW t, TreeShape(t, v - 1)
  PROVE  /\ TreeShape(Adopt(t, v), v)
         /\ \A u \in States : t.parent[u] # NoState => Adopt(t, v).parent[u] = t.parent[u]
<1> DEFINE s == Adopt(t, v)
           Adopted(u) == \E w \in LowerNeighbours(v) : u = t.root[w]
<1>1. t \in Trees /\ t.root \in [States -> States] /\ t.parent \in [States -> 0..N]
  BY DEF TreeShape, Trees
<1>2. /\ s \in Trees
      /\ \A u \in States : s.root[u] = IF Adopted(t.root[u]) THEN v ELSE t.root[u]
      /\ \A u \in States : s.parent[u] = IF Adopted(u) THEN v ELSE t.parent[u]
  <2>1. /\ s \in Trees
        /\ \A u \in States : s.root[u] =
             IF \E w \in LowerNeighbours(v) : t.root[u] = t.root[w] THEN v ELSE t.root[u]
        /\ \A u \in States : s.parent[u] =
             IF \E w \in LowerNeighbours(v) : u = t.root[w] THEN v ELSE t.parent[u]
    BY <1>1, AdoptIs
  <2> HIDE DEF s
  <2> QED BY <2>1
<1>3. ASSUME NEW u, Adopted(u) PROVE u \in States /\ u < v /\ t.parent[u] = NoState
  <2>1. PICK w \in LowerNeighbours(v) : u = t.root[w]
    BY <1>3
  <2>2. w \in States /\ w <= v - 1
    BY <2>1, Ranks DEF LowerNeighbours
  <2>3. t.root[w] \in States /\ t.root[w] <= v - 1 /\ t.parent[t.root[w]] = NoState
    BY <1>1, <2>2 DEF TreeShape
  <2> QED BY <2>1, <2>3, Ranks
<1>4. v \in States /\ ~Adopted(v)
  <2>1. v \in States /\ ~(v < v)
    BY Ranks
  <2> QED BY <1>3, <2>1
<1>5. t.parent[v] = NoState /\ t.root[v] = v
  BY <1>4, Ranks DEF TreeShape
<1> HIDE DEF s, Adopted
<1>6. ASSUME NEW u \in States
      PROVE  /\ s.parent[s.root[u]] = NoState
             /\ u <= v => s.root[u] <= v
             /\ u > v => s.root[u] = u /\ s.parent[u] = NoState
             /\ s.parent[u] # NoState => u < s.parent[u] /\ s.parent[u] <= v
  <2>0. /\ t.root[u] \in States /\ t.parent[u] \in 0..N /\ u \in 1..N
        /\ t.parent[t.root[u]] = NoState
        /\ u <= v - 1 => t.root[u] <= v - 1
        /\ u > v - 1 => t.root[u] = u /\ t.parent[u] = NoState
        /\ t.parent[u] # NoState => u < t.parent[u] /\ t.parent[u] <= v - 1
    BY <1>1, Ranks DEF TreeShape
  <2>1. s.parent[s.root[u]] = NoState
    <3>1. CASE Adopted(t.root[u])
      BY <1>2, <1>4, <1>5, <3>1
    <3>2. CASE ~Adopted(t.root[u])
      BY <1>2, <2>0, <3>2
    <3> QED BY <3>1, <3>2
  <2>2. u <= v => s.root[u] <= v
    <3>1. s.root[u] = v \/ s.root[u] = t.root[u]
      BY <1>2
    <3>2. u <= v => t.root[u] <= v
      BY <2>0, Ranks
    <3> QED BY <3>1, <3>2
  <2>3. u > v => s.root[u] = u /\ s.parent[u] = NoState
    <3>1. u > v => t.root[u] = u /\ t.parent[u] = NoState /\ ~(u < v)
      BY <2>0
    <3> QED BY <1>2, <1>3, <3>1
  <2>4. s.parent[u] # NoState => u < s.parent[u] /\ s.parent[u] <= v
    <3>1. CASE Adopted(u)
      BY <1>2, <1>3, <3>1
    <3>2. CASE ~Adopted(u)
      <4>1. s.parent[u] = t.parent[u]
        BY <1>2, <3>2
      <4> QED BY <2>0, <4>1
    <3> QED BY <3>1, <3>2
  <2> QED BY <2>1, <2>2, <2>3, <2>4
<1>7. \A u \in States : t.parent[u] # NoState => s.parent[u] = t.parent[u]
  BY <1>2, <1>3
<1>8. TreeShape(s, v)
  BY <1>2, <1>6 DEF TreeShape
<1> QED BY <1>7, <1>8 DEF s

\* Parents are given once: the tree at any time is part of the last one.
LEMMA TreesHold ==
  ASSUME NEW f, f \in [0..N -> Trees], f[0] = NoTree,
         \A v \in 1..N : f[v] = Adopt(f[v - 1], v)
  PROVE  /\ \A v \in 0..N : TreeShape(f[v], v)
         /\ \A v \in 0..N : \A u \in States :
              f[v].parent[u] # NoState => f[N].parent[u] = f[v].parent[u]
<1> DEFINE T == {v \in Nat : v <= N => TreeShape(f[v], v)}
           Kept(v, w) == \A u \in States : f[v].parent[u] # NoState => f[w].parent[u] = f[v].parent[u]
<1>1. 0 \in T
  <2>1. NoTree \in Trees
    <3>1. [u \in States |-> u] \in [States -> States] /\ [u \in States |-> NoState] \in [States -> 0..N]
      BY Ranks
    <3> QED BY <3>1 DEF NoTree, Trees
  <2>2. \A u \in States : NoTree.root[u] = u /\ NoTree.parent[u] = NoState /\ u > 0
    BY Ranks DEF NoTree
  <2>3. TreeShape(NoTree, 0)
    BY <2>1, <2>2, Ranks DEF TreeShape
  <2> QED BY <2>3
<1>2. ASSUME NEW v \in Nat, v \in T PROVE v + 1 \in T
  <2>1. SUFFICES ASSUME v + 1 <= N PROVE TreeShape(f[v + 1], v + 1)
    OBVIOUS
  <2>2. v <= N /\ v + 1 \in 1..N /\ (v + 1) - 1 = v
    BY <2>1, Ranks
  <2>3. TreeShape(f[(v + 1) - 1], (v + 1) - 1)
    BY <1>2, <2>2
  <2>4. f[v + 1] = Adopt(f[(v + 1) - 1], v + 1)
    BY <2>2
  <2> HIDE DEF T
  <2> QED BY <2>2, <2>3, <2>4, AdoptKeepsShape
<1>3. \A v \in 0..N : TreeShape(f[v], v)
  <2>1. Nat \subseteq T
    <3> HIDE DEF T
    <3> QED BY <1>1, <1>2, StepByStep
  <2> QED BY <2>1, Ranks
<1>4. \A v \in 1..N : Kept(v - 1, v)
  <2>1. ASSUME NEW v \in 1..N PROVE Kept(v - 1, v)
    <3>1. TreeShape(f[v - 1], v - 1) /\ f[v] = Adopt(f[v - 1], v)
      BY <1>3, Ranks
    <3> QED BY <3>1, AdoptKeepsShape
  <2> QED BY <2>1
<1>5. ASSUME NEW v \in 0..N PROVE Kept(v, N)
  <2> DEFINE S == {k \in Nat : v + k <= N => Kept(v, v + k)}
  <2>1. 0 \in S
    <3>1. v + 0 = v
      OBVIOUS
    <3> QED BY <3>1
  <2>2. ASSUME NEW k \in Nat, k \in S PROVE k + 1 \in S
    <3>1. SUFFICES ASSUME v + (k + 1) <= N PROVE Kept(v, v + (k + 1))
      OBVIOUS
    <3>2. v + k <= N /\ v + (k + 1) \in 1..N /\ (v + (k + 1)) - 1 = v + k
      BY <3>1, Ranks
    <3>3. Kept(v, v + k)
      BY <2>2, <3>2
    <3>4. Kept((v + (k + 1)) - 1, v + (k + 1))
      BY <1>4, <3>2
    <3>5. Kept(v + k, v + (k + 1))
      BY <3>2, <3>4
    <3> QED BY <3>3, <3>5
  <2>3. N - v \in Nat /\ v + (N - v) = N /\ v + (N - v) <= N
    BY Ranks
  <2>4. N - v \in S
    <3> HIDE DEF S
    <3> QED BY <2>1, <2>2, <2>3, StepByStep
  <2>5. Kept(v, v + (N - v))
    BY <2>3, <2>4
  <2> QED BY <2>3, <2>5
<1> QED BY <1>3, <1>5

Ancestry == [States -> 0..N]

\* Above in the tree means later in the order.
Climbs(parent) == \A u \in States : parent[u] # NoState => parent[u] \in States /\ u < parent[u]

AddUp(parent, size, v) ==
  [u \in States |-> IF u = parent[v] THEN size[u] + size[v] ELSE size[u]]

IsSize(f, parent) ==
  f = [v \in 0..N |-> IF v = 0 THEN [u \in States |-> 1] ELSE AddUp(parent, f[v - 1], v)]

\* No subtree is larger than the one its parent roots.
LEMMA SizesGrow ==
  ASSUME NEW parent \in Ancestry, Climbs(parent)
  PROVE  /\ SubtreeSize(parent) \in [States -> Nat]
         /\ \A u \in States : parent[u] # NoState =>
              SubtreeSize(parent)[u] <= SubtreeSize(parent)[parent[u]]
<1> DEFINE D == [States -> Nat]
           one == [u \in States |-> 1]
           next == [p \in (1..N) \X D |-> AddUp(parent, p[2], p[1])]
           size == CHOOSE f : IsSize(f, parent)
<1>1. ASSUME NEW s \in D, NEW v \in 1..N PROVE AddUp(parent, s, v) \in D
  <2>1. v \in States /\ \A u \in States : s[u] + s[v] \in Nat /\ s[u] \in Nat
    BY Ranks
  <2> QED BY <2>1 DEF AddUp
<1>2. one \in D /\ next \in [(1..N) \X D -> D]
  <2>1. \A p \in (1..N) \X D : p[1] \in 1..N /\ p[2] \in D
    OBVIOUS
  <2>2. \A p \in (1..N) \X D : AddUp(parent, p[2], p[1]) \in D
    BY <1>1, <2>1
  <2> QED BY <2>2
<1>3. PICK f : Follows(f, N, D, one, next)
  <2>1. N \in Nat
    BY Ranks
  <2> HIDE DEF D, one, next, size
  <2> QED BY <1>2, <2>1, Stepwise
<1>4. /\ f \in [0..N -> D] /\ f[0] = one
      /\ \A v \in 1..N : f[v] = AddUp(parent, f[v - 1], v)
  <2>1. f \in [0..N -> D] /\ f[0] = one /\ \A v \in 1..N : f[v] = next[<<v, f[v - 1]>>]
    BY <1>3, Zenon DEF Follows
  <2>2. \A v \in 1..N : f[v - 1] \in D
    BY <2>1, Ranks
  <2> QED BY <2>1, <2>2
<1>5. IsSize(f, parent)
  <2>1. \A v \in 0..N : f[v] = IF v = 0 THEN [u \in States |-> 1] ELSE AddUp(parent, f[v - 1], v)
    <3>1. \A v \in 0..N : v # 0 => v \in 1..N
      BY Ranks
    <3> QED BY <1>4, <3>1
  <2>2. f = [v \in 0..N |-> f[v]]
    BY <1>4
  <2> HIDE DEF size, next
  <2> QED BY <2>1, <2>2, Zenon DEF IsSize
<1>6. IsSize(size, parent)
  BY <1>5, Zenon
<1>7. SubtreeSize(parent) = size[N]
  BY Zenon DEF SubtreeSize, IsSize, AddUp
<1> HIDE DEF size, next
<1>8. \A v \in 0..N : size[v] = IF v = 0 THEN one ELSE AddUp(parent, size[v - 1], v)
  BY <1>6, Zenon DEF IsSize
<1> DEFINE Good(v) == /\ size[v] \in D
                      /\ \A u \in 1..v : parent[u] # NoState => size[v][u] <= size[v][parent[u]]
           T == {v \in Nat : v <= N => Good(v)}
<1>9. 0 \in T
  <2>1. size[0] = one
    BY <1>8, Ranks
  <2> QED BY <1>2, <2>1
<1>10. ASSUME NEW v \in Nat, v \in T PROVE v + 1 \in T
  <2>1. SUFFICES ASSUME v + 1 <= N PROVE Good(v + 1)
    OBVIOUS
  <2> DEFINE x == v + 1
             s == size[v]
             t == size[x]
  <2>2. x \in 1..N /\ x \in States /\ x # 0 /\ x - 1 = v /\ x \in 0..N
    BY <2>1, Ranks
  <2>0. v <= N
    BY <2>1, Ranks
  <2>01. Good(v)
    BY <1>10, <2>0
  <2>3. s \in D /\ \A u \in 1..v : parent[u] # NoState => s[u] <= s[parent[u]]
    BY <2>01
  <2>4. t = AddUp(parent, s, x)
    BY <1>8, <2>2
  <2>5. \A u \in 1..x : u = x \/ u \in 1..v
    BY <2>2
  <2>6. \A u \in 1..x : u \in States
    BY <2>2, Ranks
  <2> HIDE DEF s, t, x
  <2>7. \A u \in States : t[u] = IF u = parent[x] THEN s[u] + s[x] ELSE s[u]
    BY <2>4 DEF AddUp
  <2>8. t \in D
    BY <1>1, <2>2, <2>3, <2>4
  <2>9. ASSUME NEW u \in 1..x, parent[u] # NoState PROVE t[u] <= t[parent[u]]
    <3>1. u \in States /\ parent[u] \in States /\ u < parent[u]
      BY <2>6, <2>9 DEF Climbs
    <3>2. s[u] \in Nat /\ s[parent[u]] \in Nat /\ s[x] \in Nat
      BY <2>2, <2>3, <3>1
    <3>3. u # parent[x]
      <4>1. SUFFICES ASSUME u = parent[x] PROVE FALSE
        OBVIOUS
      <4>2. parent[x] # NoState
        BY <3>1, <4>1, Ranks
      <4>3. x < u
        BY <2>2, <4>1, <4>2 DEF Climbs
      <4> QED BY <2>2, <4>3, Ranks
    <3>4. t[u] = s[u]
      BY <2>7, <3>1, <3>3
    <3>5. CASE u = x
      <4>1. t[parent[u]] = s[parent[u]] + s[u]
        BY <2>7, <3>1, <3>5
      <4> QED BY <3>2, <3>4, <4>1
    <3>6. CASE u # x
      <4>1. s[u] <= s[parent[u]]
        BY <2>3, <2>5, <2>9, <3>6
      <4>2. t[parent[u]] = s[parent[u]] + s[x] \/ t[parent[u]] = s[parent[u]]
        BY <2>7, <3>1
      <4> QED BY <3>2, <3>4, <4>1, <4>2
    <3> QED BY <3>5, <3>6
  <2>10. Good(x)
    BY <2>8, <2>9 DEF t
  <2> QED BY <2>10 DEF x
<1>11. Good(N)
  <2>1. Nat \subseteq T
    <3> HIDE DEF T
    <3> QED BY <1>9, <1>10, StepByStep
  <2> QED BY <2>1, Ranks
<1> QED BY <1>7, <1>11, Ranks

CutAt(parent, size, limit, above, v) ==
  [u \in States |->
     IF u # v THEN above[u]
     ELSE IF size[v] > limit THEN NoState
     ELSE IF parent[v] # NoState /\ above[parent[v]] # NoState THEN above[parent[v]]
     ELSE v]

IsCut(f, parent, size, limit) ==
  f = [n \in 0..N |-> IF n = 0 THEN [u \in States |-> NoState]
                      ELSE CutAt(parent, size, limit, f[n - 1], N + 1 - n)]

\* A subtree that is small enough is one task with all that is below.
LEMMA CutsHold ==
  ASSUME NEW limit \in Nat
  PROVE  LET parent == EliminationParent
             size   == SubtreeSize(parent)
             tasked == Tasks(limit)
         IN  parent \in Ancestry /\ Climbs(parent) =>
               /\ tasked \in Ancestry
               /\ limit = 0 => \A u \in States : tasked[u] = NoState
               /\ \A u \in States : tasked[u] # NoState => size[u] <= limit
               /\ limit # 0 => \A u \in States : size[u] <= limit /\ parent[u] # NoState /\ size[parent[u]] <= limit =>
                                 tasked[u] = tasked[parent[u]]
<1> DEFINE parent == EliminationParent
           size == SubtreeSize(parent)
           none == [u \in States |-> NoState]
           next == [p \in (1..N) \X Ancestry |-> CutAt(parent, size, limit, p[2], N + 1 - p[1])]
           cut == CHOOSE f : IsCut(f, parent, size, limit)
<1>0. SUFFICES ASSUME parent \in Ancestry, Climbs(parent)
               PROVE  /\ Tasks(limit) \in Ancestry
                      /\ limit = 0 => \A u \in States : Tasks(limit)[u] = NoState
                      /\ \A u \in States : Tasks(limit)[u] # NoState => size[u] <= limit
                      /\ limit # 0 => \A u \in States : size[u] <= limit /\ parent[u] # NoState
                           /\ size[parent[u]] <= limit => Tasks(limit)[u] = Tasks(limit)[parent[u]]
  OBVIOUS
<1>1. Tasks(limit) = IF limit = 0 THEN none ELSE cut[N]
  BY Zenon DEF Tasks, IsCut, CutAt
<1>2. size \in [States -> Nat] /\ \A u \in States : parent[u] # NoState => size[u] <= size[parent[u]]
  BY <1>0, SizesGrow
<1> HIDE DEF parent, size, cut
<1>3. ASSUME NEW a \in Ancestry, NEW v \in 1..N PROVE CutAt(parent, size, limit, a, v) \in Ancestry
  <2>1. v \in 0..N /\ NoState \in 0..N
    BY Ranks
  <2>2. \A u \in States : a[u] \in 0..N
    BY DEF Ancestry
  <2>3. parent[v] # NoState => a[parent[v]] \in 0..N
    BY <1>0, <2>2, Ranks DEF Climbs
  <2> QED BY <2>1, <2>2, <2>3 DEF CutAt, Ancestry
<1>4. none \in Ancestry /\ next \in [(1..N) \X Ancestry -> Ancestry]
  <2>1. none \in Ancestry
    BY Ranks DEF Ancestry
  <2>2. \A p \in (1..N) \X Ancestry : N + 1 - p[1] \in 1..N /\ p[2] \in Ancestry
    BY Ranks
  <2>3. \A p \in (1..N) \X Ancestry : CutAt(parent, size, limit, p[2], N + 1 - p[1]) \in Ancestry
    BY <1>3, <2>2
  <2> QED BY <2>1, <2>3
<1>5. PICK f : Follows(f, N, Ancestry, none, next)
  <2>1. N \in Nat
    BY Ranks
  <2> HIDE DEF none, next
  <2> QED BY <1>4, <2>1, Stepwise
<1>6. /\ f \in [0..N -> Ancestry] /\ f[0] = none
      /\ \A n \in 1..N : f[n] = CutAt(parent, size, limit, f[n - 1], N + 1 - n)
  <2>1. f \in [0..N -> Ancestry] /\ f[0] = none /\ \A v \in 1..N : f[v] = next[<<v, f[v - 1]>>]
    BY <1>5, Zenon DEF Follows
  <2>2. \A v \in 1..N : f[v - 1] \in Ancestry
    BY <2>1, Ranks
  <2> QED BY <2>1, <2>2
<1>7. IsCut(f, parent, size, limit)
  <2>1. \A n \in 0..N : f[n] = IF n = 0 THEN [u \in States |-> NoState]
                               ELSE CutAt(parent, size, limit, f[n - 1], N + 1 - n)
    <3>1. \A v \in 0..N : v # 0 => v \in 1..N
      BY Ranks
    <3> QED BY <1>6, <3>1
  <2>2. f = [n \in 0..N |-> f[n]]
    BY <1>6
  <2> HIDE DEF next
  <2> QED BY <2>1, <2>2, Zenon DEF IsCut
<1>8. IsCut(cut, parent, size, limit)
  BY <1>7, Zenon DEF cut
<1>9. \A n \in 0..N : cut[n] = IF n = 0 THEN none ELSE CutAt(parent, size, limit, cut[n - 1], N + 1 - n)
  BY <1>8, Zenon DEF IsCut
<1> HIDE DEF next
<1> DEFINE Good(n) ==
             /\ cut[n] \in Ancestry
             /\ \A u \in States : u > N - n =>
                  /\ cut[n][u] # NoState <=> size[u] <= limit
                  /\ size[u] <= limit /\ parent[u] # NoState
                       /\ size[parent[u]] <= limit => cut[n][u] = cut[n][parent[u]]
           T == {n \in Nat : n <= N => Good(n)}
<1>10. 0 \in T
  <2>1. cut[0] = none
    BY <1>9, Ranks
  <2>2. \A u \in States : ~(u > N - 0)
    BY Ranks
  <2> QED BY <1>4, <2>1, <2>2
<1>11. ASSUME NEW n \in Nat, n \in T PROVE n + 1 \in T
  <2>1. SUFFICES ASSUME n + 1 <= N PROVE Good(n + 1)
    OBVIOUS
  <2> DEFINE v == N - n
             a == cut[n]
             b == cut[n + 1]
  <2>2. /\ v \in 1..N /\ v \in States /\ n + 1 \in 0..N /\ n + 1 # 0 /\ (n + 1) - 1 = n
        /\ N + 1 - (n + 1) = v /\ n <= N /\ N - (n + 1) = v - 1
    BY <2>1, Ranks
  <2>3. Good(n)
    BY <1>11, <2>2
  <2>4. b = CutAt(parent, size, limit, a, v)
    BY <1>9, <2>2
  <2>5. /\ a \in Ancestry
        /\ \A u \in States : u > v =>
             /\ a[u] # NoState <=> size[u] <= limit
             /\ size[u] <= limit /\ parent[u] # NoState
                  /\ size[parent[u]] <= limit => a[u] = a[parent[u]]
    BY <2>3
  <2> HIDE DEF T, Good, a, b, v
  <2>6. /\ \A u \in States \ {v} : b[u] = a[u]
        /\ b[v] = IF size[v] > limit THEN NoState
                  ELSE IF parent[v] # NoState /\ a[parent[v]] # NoState THEN a[parent[v]]
                  ELSE v
    BY <2>2, <2>4 DEF CutAt
  <2>7. b \in Ancestry
    BY <1>3, <2>2, <2>4, <2>5
  <2>8. ASSUME NEW u \in States, u > v - 1
        PROVE  /\ b[u] # NoState <=> size[u] <= limit
               /\ size[u] <= limit /\ parent[u] # NoState
                    /\ size[parent[u]] <= limit => b[u] = b[parent[u]]
    <3>1. parent[u] # NoState => parent[u] \in States /\ parent[u] > u /\ parent[u] # v /\ parent[u] > v
      BY <1>0, <2>2, <2>8, Ranks DEF Climbs
    <3>2. parent[u] # NoState => b[parent[u]] = a[parent[u]] /\ (a[parent[u]] # NoState <=> size[parent[u]] <= limit)
      BY <2>5, <2>6, <3>1
    <3>3. size[u] \in Nat /\ limit \in Nat
      BY <1>2
    <3>4. CASE u = v
      <4>1. v # NoState
        BY <2>2, Ranks
      <4>2. b[u] # NoState <=> size[u] <= limit
        <5>1. CASE size[v] > limit
          BY <2>6, <3>3, <3>4, <5>1
        <5>2. CASE ~(size[v] > limit)
          BY <2>6, <3>3, <3>4, <4>1, <5>2
        <5> QED BY <5>1, <5>2
      <4>3. ASSUME size[u] <= limit, parent[u] # NoState, size[parent[u]] <= limit
            PROVE  b[u] = b[parent[u]]
        <5>1. a[parent[u]] # NoState /\ ~(size[v] > limit)
          BY <3>2, <3>3, <3>4, <4>3
        <5>2. b[v] = a[parent[v]]
          BY <2>6, <3>4, <4>3, <5>1
        <5> QED BY <3>2, <3>4, <4>3, <5>2
      <4> QED BY <4>2, <4>3
    <3>5. CASE u # v
      <4>1. u > v /\ b[u] = a[u]
        <5>1. u > v
          BY <2>2, <2>8, <3>5, Ranks
        <5> QED BY <2>6, <3>5, <5>1
      <4> QED BY <2>5, <3>2, <4>1
    <3> QED BY <3>4, <3>5
  <2>9. Good(n + 1)
    BY <2>2, <2>7, <2>8 DEF Good, b
  <2> QED BY <2>9
<1>12. Good(N)
  <2>1. Nat \subseteq T
    <3> HIDE DEF T
    <3> QED BY <1>10, <1>11, StepByStep
  <2> QED BY <2>1, Ranks
<1>13. \A u \in States : u > N - N
  BY Ranks
<1>14. CASE limit = 0
  BY <1>1, <1>4, <1>14
<1>15. CASE limit # 0
  BY <1>1, <1>12, <1>13, <1>15
<1> QED BY <1>14, <1>15


\* A task has all that is joined to its middles from below.
LEMMA TasksFollow ==
  ASSUME NEW limit \in Nat
  PROVE  /\ Tasks(limit) \in Ancestry
         /\ \A v \in States : Tasks(limit)[v] # NoState =>
              \A w \in LowerNeighbours(v) : Tasks(limit)[w] = Tasks(limit)[v]
<1> DEFINE parent == EliminationParent
           size == SubtreeSize(parent)
           tasked == Tasks(limit)
<1>1. PICK f : /\ parent = f[N].parent
               /\ f \in [0..N -> Trees] /\ f[0] = NoTree
               /\ \A v \in 1..N : f[v] = Adopt(f[v - 1], v)
  BY ForestGrows
<1>2. /\ \A v \in 0..N : TreeShape(f[v], v)
      /\ \A v \in 0..N : \A u \in States :
           f[v].parent[u] # NoState => f[N].parent[u] = f[v].parent[u]
  BY <1>1, TreesHold
<1>3. parent \in Ancestry /\ Climbs(parent)
  <2>1. TreeShape(f[N], N)
    BY <1>2, Ranks
  <2>2. f[N].parent \in [States -> 0..N]
    BY <2>1 DEF TreeShape, Trees
  <2>3. \A u \in States : f[N].parent[u] # NoState => f[N].parent[u] \in States /\ u < f[N].parent[u]
    <3>1. \A u \in States : f[N].parent[u] \in 0..N
      BY <2>2
    <3>2. \A u \in States : f[N].parent[u] # NoState => u < f[N].parent[u]
      BY <2>1 DEF TreeShape
    <3> QED BY <3>1, <3>2, Ranks
  <2> HIDE DEF parent
  <2> QED BY <1>1, <2>2, <2>3 DEF Ancestry, Climbs
<1>4. /\ size \in [States -> Nat]
      /\ \A u \in States : parent[u] # NoState => size[u] <= size[parent[u]]
  BY <1>3, SizesGrow
<1>5. /\ tasked \in Ancestry
      /\ limit = 0 => \A u \in States : tasked[u] = NoState
      /\ \A u \in States : tasked[u] # NoState => size[u] <= limit
      /\ limit # 0 => \A u \in States : size[u] <= limit /\ parent[u] # NoState /\ size[parent[u]] <= limit =>
                        tasked[u] = tasked[parent[u]]
  BY <1>3, CutsHold
<1> HIDE DEF parent, size, tasked
\* A state that v adopts.
<1>6. ASSUME NEW v \in 1..N, NEW w \in LowerNeighbours(v)
      PROVE  LET r == f[v - 1].root[w] IN
             /\ w \in States /\ r \in States /\ parent[r] = v /\ size[r] <= size[v]
  <2>1. v - 1 \in 0..N /\ v \in 0..N /\ v # NoState
    BY Ranks
  <2>2. f[v - 1] \in Trees /\ f[v] = Adopt(f[v - 1], v)
    BY <1>1, <2>1
  <2>3. w \in States
    BY Ranks DEF LowerNeighbours
  <2>4. PICK r \in States : r = f[v - 1].root[w]
    BY <2>2, <2>3 DEF Trees
  <2>5. f[v].parent[r] = v
    BY <2>2, <2>4, AdoptIs
  <2>6. parent[r] = v
    BY <1>1, <1>2, <2>1, <2>5
  <2>7. size[r] <= size[v]
    BY <1>4, <2>1, <2>6
  <2> QED BY <2>3, <2>4, <2>6, <2>7
<1> DEFINE Joined(v) == \A u \in States : LET r == f[v].root[u] IN
                          /\ size[u] <= size[r]
                          /\ size[r] <= limit => tasked[u] = tasked[r]
           T == {v \in Nat : v <= N => Joined(v)}
<1>7. CASE limit = 0
  BY <1>5, <1>7 DEF tasked
<1>8. CASE limit # 0
  <2>1. 0 \in T
    <3>1. \A u \in States : f[0].root[u] = u
      BY <1>1 DEF NoTree
    <3>2. \A u \in States : size[u] <= size[u]
      BY <1>4
    <3> QED BY <3>1, <3>2
  <2>2. ASSUME NEW v \in Nat, v \in T PROVE v + 1 \in T
    <3>1. SUFFICES ASSUME v + 1 <= N, NEW u \in States
                   PROVE  LET r == f[v + 1].root[u] IN
                          /\ size[u] <= size[r]
                          /\ size[r] <= limit => tasked[u] = tasked[r]
      OBVIOUS
    <3> DEFINE x == v + 1
    <3>2. v <= N /\ v \in 0..N /\ x \in 1..N /\ x - 1 = v
      BY <3>1, Ranks
    <3>3. Joined(v)
      BY <2>2, <3>2
    <3>4. f[v] \in Trees /\ f[x] = Adopt(f[v], x)
      BY <1>1, <3>2
    <3>5. PICK r \in States : r = f[v].root[u]
      BY <3>4 DEF Trees
    <3>6. size[u] <= size[r] /\ (size[r] <= limit => tasked[u] = tasked[r])
      BY <3>3, <3>5
    <3>7. f[x].root[u] = IF \E w \in LowerNeighbours(x) : r = f[v].root[w] THEN x ELSE r
      <4> HIDE DEF x
      <4> QED BY <3>2, <3>4, <3>5, AdoptIs
    <3> HIDE DEF T, Joined, x
    <3>8. CASE \E w \in LowerNeighbours(x) : r = f[v].root[w]
      <4>1. parent[r] = x /\ size[r] <= size[x]
        BY <1>6, <3>2, <3>8
      <4>2. x \in States /\ x # NoState
        BY <3>2, Ranks
      <4>3. size[u] \in Nat /\ size[r] \in Nat /\ size[x] \in Nat
        BY <1>4, <4>2
      <4>4. size[u] <= size[x]
        BY <3>6, <4>1, <4>3
      <4>5. size[x] <= limit => tasked[u] = tasked[x]
        <5>1. SUFFICES ASSUME size[x] <= limit PROVE tasked[u] = tasked[x]
          OBVIOUS
        <5>2. size[r] <= limit
          BY <4>1, <4>3, <5>1
        <5>3. tasked[r] = tasked[x]
          BY <1>5, <1>8, <4>1, <4>2, <5>1, <5>2
        <5> QED BY <3>6, <5>2, <5>3
      <4>6. f[x].root[u] = x
        BY <3>7, <3>8
      <4> QED BY <4>4, <4>5, <4>6 DEF x
    <3>9. CASE ~\E w \in LowerNeighbours(x) : r = f[v].root[w]
      <4>1. f[x].root[u] = r
        BY <3>7, <3>9
      <4> QED BY <3>6, <4>1 DEF x
    <3> QED BY <3>8, <3>9
  <2>3. \A v \in 0..N : Joined(v)
    <3>1. Nat \subseteq T
      <4> HIDE DEF T
      <4> QED BY <2>1, <2>2, StepByStep
    <3> QED BY <3>1, Ranks
  <2>4. ASSUME NEW v \in States, tasked[v] # NoState, NEW w \in LowerNeighbours(v)
        PROVE  tasked[w] = tasked[v]
    <3>1. v \in 1..N /\ v - 1 \in 0..N /\ v # NoState
      BY Ranks
    <3>2. PICK r : r = f[v - 1].root[w]
      OBVIOUS
    <3>3. w \in States /\ r \in States /\ parent[r] = v /\ size[r] <= size[v]
      BY <1>6, <3>1, <3>2
    <3>4. size[w] <= size[r] /\ (size[r] <= limit => tasked[w] = tasked[r])
      BY <2>3, <3>1, <3>2, <3>3
    <3>5. size[v] <= limit
      BY <1>5, <2>4
    <3>6. size[r] <= limit
      <4>1. size[r] \in Nat /\ size[v] \in Nat
        BY <1>4, <3>3
      <4> QED BY <3>3, <3>5, <4>1
    <3>7. tasked[r] = tasked[v]
      BY <1>5, <1>8, <3>1, <3>3, <3>5, <3>6
    <3> QED BY <3>4, <3>6, <3>7
  <2> QED BY <1>5, <2>4 DEF tasked
<1> QED BY <1>7, <1>8

-----------------------------------------------------------------------------
(* Weights.                                                                *)

Weights == 0..Overflow \cup {Infinity}

\* The constants as the proofs use them.
LEMMA WeightConstants ==
  /\ Tick \in Nat \ {0} /\ Overflow \in Nat \ {0} /\ Infinity \in Nat /\ Overflow < Infinity
  /\ Weights \subseteq Nat
BY WeightAssumption DEF Weights

\* The lesser of two numbers.
LEMMA LeastOfTwo ==
  ASSUME NEW l \in Nat, NEW r \in Nat
  PROVE  Least({l, r}) = IF l <= r THEN l ELSE r
<1>1. {l, r} \in SUBSET Nat /\ {l, r} # {}
  OBVIOUS
<1>2. Min({l, r}) \in {l, r} /\ \A y \in {l, r} : Min({l, r}) <= y
  BY <1>1, MinIsLeast
<1> QED BY <1>2 DEF Least

\* An encoded cost is finite, saturated at Overflow.
LEMMA EncodedFits ==
  ASSUME NEW w \in Nat
  PROVE  EncodeWeight(w) \in 0..Overflow
<1> DEFINE q == (2 * w + Tick) \div (2 * Tick)
           one == IF w > 0 THEN 1 ELSE 0
<1>1. PICK d \in Int : d = q
  <2>1. 2 * w + Tick \in Int /\ 2 * Tick \in Int /\ 2 * Tick # 0 /\ 2 * Tick > 0
    BY WeightConstants
  <2> QED BY <2>1
<1>2. PICK e \in {0, 1} : e = one
  OBVIOUS
<1>3. PICK m : m = Max({d, e})
  OBVIOUS
<1>4. m \in Nat
  <2>1. \E x \in {d, e} : \A y \in {d, e} : x >= y
    BY <1>1, <1>2
  <2>2. m \in {d, e} /\ \A y \in {d, e} : m >= y
    BY <1>3, <2>1 DEF Max
  <2> QED BY <1>1, <1>2, <2>2
<1>5. EncodeWeight(w) = Least({Overflow, m})
  BY <1>1, <1>2, <1>3, Zenon DEF EncodeWeight
<1>6. Least({Overflow, m}) = IF Overflow <= m THEN Overflow ELSE m
  BY <1>4, WeightConstants, LeastOfTwo
<1> QED BY <1>4, <1>5, <1>6, WeightConstants

\* The sum of two weights is a weight: saturated, Infinity if one of them is.
LEMMA AddedFits ==
  ASSUME NEW l \in Weights, NEW r \in Weights
  PROVE  /\ AddWeights(l, r) \in Weights
         /\ AddWeights(l, r) = IF l = Infinity \/ r = Infinity THEN Infinity
                               ELSE IF l + r <= Overflow THEN l + r ELSE Overflow
<1>1. CASE l = Infinity \/ r = Infinity
  BY <1>1 DEF AddWeights, Weights
<1>2. CASE ~(l = Infinity \/ r = Infinity)
  <2>1. l \in Nat /\ r \in Nat /\ l + r \in Nat /\ Overflow \in Nat
    BY WeightConstants
  <2>2. AddWeights(l, r) = Least({Overflow, l + r})
    BY <1>2 DEF AddWeights
  <2>3. Least({Overflow, l + r}) = IF Overflow <= l + r THEN Overflow ELSE l + r
    BY <2>1, LeastOfTwo
  <2> QED BY <1>2, <2>1, <2>2, <2>3 DEF Weights
<1> QED BY <1>1, <1>2

-----------------------------------------------------------------------------
(* What a triangle adds to an arc.                                         *)

Loopless == {a \in Pairs : a[1] # a[2]}

Profiles == [States -> Nat \cup {Closed}]

Sides(w, a, m) == AddWeights(w[<<a[1], m>>], w[<<m, a[2]>>])

\* The weight of an arc by its turn under costs c and by the triangles over
\* middles in M whose sides weigh w.
Value(c, w, a, M) ==
  Least({BaseWeight(c, a)} \cup {Sides(w, a, m) : m \in LowerTriangles(a) \cap M})

\* The lower endpoint of an arc, which is no loop.
LEMMA LowerIs ==
  ASSUME NEW a \in Loopless
  PROVE  /\ a[1] \in States /\ a[2] \in States /\ a = <<a[1], a[2]>> /\ a[1] # a[2]
         /\ Lower(a) \in States /\ Lower(a) = IF a[1] < a[2] THEN a[1] ELSE a[2]
         /\ Lower(a) <= a[1] /\ Lower(a) <= a[2]
<1>1. a[1] \in States /\ a[2] \in States /\ a = <<a[1], a[2]>> /\ a[1] # a[2]
  BY DEF Loopless, Pairs
<1>2. a[1] \in Nat /\ a[2] \in Nat
  BY <1>1, Ranks
<1>3. Lower(a) = IF a[1] <= a[2] THEN a[1] ELSE a[2]
  BY <1>2, LeastOfTwo DEF Lower
<1> QED BY <1>1, <1>2, <1>3

\* The weight of a turn is a weight; what is no turn weighs Infinity.
LEMMA BaseFits ==
  ASSUME NEW c \in Profiles, NEW a \in Pairs, IsNetwork(net)
  PROVE  /\ BaseWeight(c, a) \in Weights
         /\ a \notin net.steps => BaseWeight(c, a) = Infinity
<1>1. CASE a \in net.steps \ net.forbidden /\ Closed \notin {c[a[1]], c[a[2]]}
  <2>1. net.turn[a] \in Nat
    BY <1>1 DEF IsNetwork
  <2>2. c[a[2]] \in Nat
    BY <1>1 DEF Profiles, Pairs
  <2>3. c[a[2]] + net.turn[a] \in Nat
    BY <2>1, <2>2
  <2>4. EncodeWeight(c[a[2]] + net.turn[a]) \in 0..Overflow
    BY <2>3, EncodedFits
  <2> QED BY <1>1, <2>4 DEF BaseWeight, Weights
<1>2. CASE ~(a \in net.steps \ net.forbidden /\ Closed \notin {c[a[1]], c[a[2]]})
  BY <1>2 DEF BaseWeight, Weights
<1> QED BY <1>1, <1>2

\* The middle of a lower triangle is below the arc, and its sides are other
\* arcs.
LEMMA TriangleIs ==
  ASSUME arcs \subseteq Loopless, NEW a \in Loopless, NEW m \in LowerTriangles(a)
  PROVE  /\ m \in States /\ m < Lower(a) /\ m < a[1] /\ m < a[2]
         /\ <<a[1], m>> \in arcs /\ <<m, a[2]>> \in arcs
         /\ <<a[1], m>> # a /\ <<m, a[2]>> # a
<1>1. /\ a[1] \in States /\ a[2] \in States /\ a = <<a[1], a[2]>>
      /\ Lower(a) \in States /\ Lower(a) <= a[1] /\ Lower(a) <= a[2]
  BY LowerIs
<1>2. m \in 1..(Lower(a) - 1) /\ <<a[1], m>> \in arcs /\ <<m, a[2]>> \in arcs
  BY DEF LowerTriangles
<1>3. m \in States /\ m < Lower(a) /\ m < a[1] /\ m < a[2]
  BY <1>1, <1>2, Ranks
<1>4. m # a[1] /\ m # a[2]
  BY <1>1, <1>3, Ranks
<1> QED BY <1>1, <1>2, <1>3, <1>4

\* A triangle adds a weight.
LEMMA SidesFit ==
  ASSUME arcs \subseteq Loopless, NEW w \in [arcs -> Weights],
         NEW a \in Loopless, NEW m \in LowerTriangles(a)
  PROVE  Sides(w, a, m) \in Weights
<1>1. w[<<a[1], m>>] \in Weights /\ w[<<m, a[2]>>] \in Weights
  BY TriangleIs
<1> QED BY <1>1, AddedFits DEF Sides

\* What a value is known by.
IsValue(v, c, w, a, M) ==
  /\ v \in Weights
  /\ v <= BaseWeight(c, a) /\ \A m \in LowerTriangles(a) \cap M : v <= Sides(w, a, m)
  /\ v = BaseWeight(c, a) \/ \E m \in LowerTriangles(a) \cap M : v = Sides(w, a, m)

\* There is one such value, the one the model computes.
LEMMA ValueIs ==
  ASSUME IsNetwork(net), arcs \subseteq Loopless,
         NEW c \in Profiles, NEW w \in [arcs -> Weights], NEW a \in Loopless, NEW M
  PROVE  /\ IsValue(Value(c, w, a, M), c, w, a, M)
         /\ \A v : IsValue(v, c, w, a, M) => v = Value(c, w, a, M)
<1> DEFINE S == {BaseWeight(c, a)} \cup {Sides(w, a, m) : m \in LowerTriangles(a) \cap M}
<1>1. a \in Pairs
  BY DEF Loopless
<1>2. BaseWeight(c, a) \in Weights
  BY <1>1, BaseFits
<1>3. \A m \in LowerTriangles(a) : Sides(w, a, m) \in Weights
  BY SidesFit
<1>4. S \subseteq Weights /\ BaseWeight(c, a) \in S /\ \A m \in LowerTriangles(a) \cap M : Sides(w, a, m) \in S
  BY <1>2, <1>3
<1>5. \A v \in S : v = BaseWeight(c, a) \/ \E m \in LowerTriangles(a) \cap M : v = Sides(w, a, m)
  OBVIOUS
<1>6. Value(c, w, a, M) = Min(S)
  BY Zenon DEF Value, Least
<1> HIDE DEF S
<1>7. Min(S) \in S /\ \A y \in S : Min(S) <= y
  <2>1. S \in SUBSET Nat /\ S # {}
    BY <1>4, WeightConstants
  <2> QED BY <2>1, MinIsLeast
<1>8. PICK least : least = Value(c, w, a, M)
  OBVIOUS
<1>9. IsValue(least, c, w, a, M)
  BY <1>4, <1>5, <1>6, <1>7, <1>8 DEF IsValue
<1>10. ASSUME NEW v, IsValue(v, c, w, a, M) PROVE v = least
  <2>1. v \in Nat /\ least \in Nat
    BY <1>9, <1>10, WeightConstants DEF IsValue
  <2>2. v <= least
    BY <1>9, <1>10 DEF IsValue
  <2>3. least <= v
    BY <1>9, <1>10 DEF IsValue
  <2> QED BY <2>1, <2>2, <2>3
<1> QED BY <1>8, <1>9, <1>10

\* One more middle.
LEMMA ValueGrows ==
  ASSUME IsNetwork(net), arcs \subseteq Loopless,
         NEW c \in Profiles, NEW w \in [arcs -> Weights], NEW a \in Loopless, NEW M, NEW x
  PROVE  Value(c, w, a, M \cup {x}) =
           IF x \in LowerTriangles(a) /\ Sides(w, a, x) < Value(c, w, a, M)
           THEN Sides(w, a, x) ELSE Value(c, w, a, M)
<1>1. PICK old : old = Value(c, w, a, M)
  OBVIOUS
<1>2. IsValue(old, c, w, a, M) /\ old \in Nat
  <2>1. IsValue(old, c, w, a, M)
    BY <1>1, ValueIs
  <2> QED BY <2>1, WeightConstants DEF IsValue
<1>3. x \in LowerTriangles(a) => Sides(w, a, x) \in Weights /\ Sides(w, a, x) \in Nat
  BY SidesFit, WeightConstants
<1>4. \A m \in LowerTriangles(a) : Sides(w, a, m) \in Nat
  BY SidesFit, WeightConstants
<1>5. BaseWeight(c, a) \in Nat
  <2>1. a \in Pairs
    BY DEF Loopless
  <2> QED BY <2>1, BaseFits, WeightConstants
<1>6. \A v : IsValue(v, c, w, a, M \cup {x}) => v = Value(c, w, a, M \cup {x})
  BY ValueIs
<1>7. CASE x \in LowerTriangles(a) /\ Sides(w, a, x) < old
  <2>1. PICK v : v = Sides(w, a, x)
    OBVIOUS
  <2>2. v \in Weights /\ v \in Nat /\ v < old
    BY <1>3, <1>7, <2>1
  <2>3. v <= BaseWeight(c, a)
    BY <1>2, <1>5, <2>2 DEF IsValue
  <2>4. \A m \in LowerTriangles(a) \cap (M \cup {x}) : v <= Sides(w, a, m)
    <3>1. \A m \in LowerTriangles(a) \cap M : v <= Sides(w, a, m)
      BY <1>2, <1>4, <2>2 DEF IsValue
    <3>2. v <= Sides(w, a, x)
      BY <2>1, <2>2
    <3> QED BY <3>1, <3>2
  <2>5. IsValue(v, c, w, a, M \cup {x})
    BY <1>7, <2>1, <2>2, <2>3, <2>4 DEF IsValue
  <2> QED BY <1>1, <1>6, <1>7, <2>1, <2>5
<1>8. CASE ~(x \in LowerTriangles(a) /\ Sides(w, a, x) < old)
  <2>1. x \in LowerTriangles(a) => old <= Sides(w, a, x)
    BY <1>2, <1>3, <1>8
  <2>2. IsValue(old, c, w, a, M \cup {x})
    BY <1>2, <2>1 DEF IsValue
  <2> QED BY <1>1, <1>6, <1>8, <2>2
<1> QED BY <1>1, <1>7, <1>8

\* A value depends on the turn and the sides only.
LEMMA SameValue ==
  ASSUME IsNetwork(net), arcs \subseteq Loopless,
         NEW c \in Profiles, NEW w \in [arcs -> Weights],
         NEW d \in Profiles, NEW x \in [arcs -> Weights], NEW a \in Loopless, NEW M,
         BaseWeight(c, a) = BaseWeight(d, a),
         \A m \in LowerTriangles(a) \cap M :
           w[<<a[1], m>>] = x[<<a[1], m>>] /\ w[<<m, a[2]>>] = x[<<m, a[2]>>]
  PROVE  Value(c, w, a, M) = Value(d, x, a, M)
<1>1. PICK v : v = Value(c, w, a, M)
  OBVIOUS
<1>2. IsValue(v, c, w, a, M)
  BY <1>1, ValueIs
<1>3. \A m \in LowerTriangles(a) \cap M : Sides(w, a, m) = Sides(x, a, m)
  BY DEF Sides
<1>4. IsValue(v, d, x, a, M)
  BY <1>2, <1>3 DEF IsValue
<1> QED BY <1>1, <1>4, ValueIs

-----------------------------------------------------------------------------
(* The inductive invariant.                                                *)

Phases == {"contract", "relax", "ready", "recustomize", "avoiding", "exact"}

TypeOK ==
  /\ IsNetwork(net) /\ phase \in Phases /\ contracted \in 0..N
  /\ pending \subseteq Loopless /\ arcs \subseteq Loopless
  /\ phase # "contract" => /\ contracted = N
                           /\ cost \in Profiles /\ weight \in [arcs -> Weights]
  /\ relaxed \subseteq States /\ queue \subseteq queued /\ queued \subseteq arcs
  /\ phase # "relax" => relaxed = {}
  /\ phase # "recustomize" => queued = {}

\* Contracted states leave no gap: what two arcs join over one is joined.
Filled ==
  /\ \A a \in arcs : Lower(a) <= contracted
  /\ \A a \in pending : Lower(a) > contracted
  /\ net.steps \subseteq arcs \cup pending
  /\ \A x, y, v \in States :
       x # y /\ v < x /\ v < y /\ <<x, v>> \in arcs /\ <<v, y>> \in arcs =>
         <<x, y>> \in arcs \cup pending

\* A task has what is joined to its middles from below.
Together ==
  phase = "relax" =>
    \A v \in States : task[v] # NoState => \A u \in LowerNeighbours(v) : task[u] = task[v]

\* A middle is relaxed after those it waits for.
InOrder == \A v \in relaxed : Before(v) \subseteq relaxed

\* No arc waits that ranks below one that is settled.
Settled == \A a \in queued \ queue, b \in queue : Lower(a) <= Lower(b)

\* Outside the queue every arc weighs what its turn and its triangles say.
Weighed ==
  /\ phase = "relax" => \A a \in arcs : weight[a] = Value(cost, weight, a, relaxed)
  /\ phase \notin {"contract", "relax"} =>
       \A a \in arcs \ queue : weight[a] = Value(cost, weight, a, States)

\* What is served has no weight that does not fit.
Fitting == Served => \A a \in arcs : weight[a] # Overflow

IInv == TypeOK /\ Filled /\ Together /\ InOrder /\ Settled /\ Weighed /\ Fitting

\* The parts that an action leaves alone.
LEMMA FilledStays ==
  ASSUME Filled, UNCHANGED hierarchy
  PROVE  Filled'
<1>1. UNCHANGED <<net, contracted, pending, arcs>>
  BY DEF hierarchy
<1> QED BY <1>1 DEF Filled, Lower

\* Every action keeps the invariant.
LEMMA ContractionStarts ==
  ASSUME IsNetwork(net), cost = << >>, phase = "contract", contracted = 0, pending = net.steps, arcs = {},
         task = << >>, weight = << >>, relaxed = {}, queue = {}, queued = {}
  PROVE  IInv
<1>1. IsNetwork(net) /\ net.steps \subseteq Loopless
  BY DEF IsNetwork, Loopless
<1>2. TypeOK
  BY <1>1, Ranks DEF TypeOK, Phases
<1>3. Filled
  <2>1. \A a \in pending : Lower(a) > contracted
    <3>1. \A a \in pending : Lower(a) \in States
      BY <1>1, LowerIs
    <3> QED BY <3>1, Ranks
  <2> QED BY <2>1 DEF Filled
<1>4. Together /\ InOrder /\ Settled /\ Weighed /\ Fitting
  BY DEF Together, InOrder, Settled, Weighed, Fitting, Served
<1> QED BY <1>2, <1>3, <1>4 DEF IInv

\* A dataset begins with its contraction.
LEMMA InitHolds == ASSUME Init PROVE IInv
BY HierarchyAssumption, ContractionStarts DEF Init


\* Contracting a state leaves no gap: it joins all its higher neighbours.
LEMMA ContractHolds == ASSUME IInv, Contract PROVE IInv'
<1> DEFINE v == contracted + 1
           owned == {a \in pending : Lower(a) = v}
           tails == {x \in States : <<x, v>> \in owned}
           heads == {y \in States : <<v, y>> \in owned}
           filling == {a \in tails \X heads : a[1] # a[2]}
<1>1. /\ phase = "contract" /\ contracted < N
      /\ pending' = (pending \ owned) \cup filling
      /\ arcs' = arcs \cup owned /\ contracted' = v
      /\ UNCHANGED <<net, cost, task, phase, weight, relaxed, queue, queued>>
  BY DEF Contract
<1>2. TypeOK /\ Filled /\ queued = {} /\ relaxed = {} /\ queue = {} /\ contracted \in 0..N
  BY <1>1 DEF IInv, TypeOK
<1>3. v \in States /\ v \in 0..N /\ v > contracted /\ contracted \in Nat
  BY <1>1, <1>2, Ranks
<1>4. /\ pending \subseteq Loopless /\ arcs \subseteq Loopless /\ owned \subseteq pending
      /\ \A a \in owned : Lower(a) = v
  BY <1>2 DEF TypeOK
<1>5. ASSUME NEW x \in States, NEW y \in States
      PROVE  /\ x \in tails <=> <<x, v>> \in owned
             /\ y \in heads <=> <<v, y>> \in owned
             /\ <<x, y>> \in filling <=> x \in tails /\ y \in heads /\ x # y
  OBVIOUS
<1>6. ASSUME NEW a \in filling
      PROVE  a \in Loopless /\ Lower(a) > v
  <2>1. /\ a[1] \in States /\ a[2] \in States /\ a = <<a[1], a[2]>> /\ a[1] # a[2]
        /\ <<a[1], v>> \in owned /\ <<v, a[2]>> \in owned
    OBVIOUS
  <2>2. a \in Loopless
    BY <2>1 DEF Loopless, Pairs
  <2> HIDE DEF owned, v
  <2>3. <<a[1], v>> \in Loopless /\ Lower(<<a[1], v>>) = v
    BY <1>4, <2>1
  <2>4. <<v, a[2]>> \in Loopless /\ Lower(<<v, a[2]>>) = v
    BY <1>4, <2>1
  <2>5. a[1] # v /\ v <= a[1]
    BY <2>3, LowerIs
  <2>6. a[2] # v /\ v <= a[2]
    BY <2>4, LowerIs
  <2>7. Lower(a) \in {a[1], a[2]}
    BY <2>2, LowerIs
  <2> QED BY <1>3, <2>1, <2>2, <2>5, <2>6, <2>7, Ranks
<1> HIDE DEF v, owned, tails, heads, filling
<1>7. TypeOK'
  BY <1>1, <1>2, <1>3, <1>4, <1>6 DEF TypeOK, Phases
<1>8. Filled'
  <2>0. /\ \A a \in arcs : Lower(a) <= contracted
        /\ \A a \in pending : Lower(a) > contracted
        /\ net.steps \subseteq arcs \cup pending
        /\ \A x, y, u \in States :
             x # y /\ u < x /\ u < y /\ <<x, u>> \in arcs /\ <<u, y>> \in arcs =>
               <<x, y>> \in arcs \cup pending
    BY <1>2 DEF Filled
  <2>1. \A a \in arcs' : Lower(a) <= v
    <3>1. \A a \in arcs : Lower(a) \in States
      BY <1>4, LowerIs
    <3>2. \A a \in arcs : Lower(a) <= v
      BY <1>3, <2>0, <3>1, Ranks
    <3>3. v <= v
      BY <1>3
    <3> QED BY <1>1, <1>4, <3>2, <3>3
  <2>2. \A a \in pending' : Lower(a) > v
    <3>1. ASSUME NEW a \in pending \ owned PROVE Lower(a) > v
      <4>1. Lower(a) \in States /\ Lower(a) > contracted
        BY <1>4, <2>0, LowerIs
      <4>2. Lower(a) # v
        BY <3>1 DEF owned
      <4> QED BY <1>3, <4>1, <4>2, Ranks DEF v
    <3> QED BY <1>1, <1>6, <3>1
  <2>3. arcs \cup pending \subseteq arcs' \cup pending'
    BY <1>1, <1>4
  <2>4. ASSUME NEW x \in States, NEW y \in States, NEW u \in States,
               x # y, u < x, u < y, <<x, u>> \in arcs', <<u, y>> \in arcs'
        PROVE  <<x, y>> \in arcs' \cup pending'
    <3>1. /\ <<x, u>> \in arcs \cup owned /\ <<u, y>> \in arcs \cup owned
          /\ <<x, u>> \in Loopless /\ <<u, y>> \in Loopless
      BY <1>1, <1>4, <2>4
    <3>2. Lower(<<x, u>>) = u /\ Lower(<<u, y>>) = u
      <4>1. Lower(<<x, u>>) = IF x < u THEN x ELSE u
        BY <3>1, LowerIs
      <4>2. Lower(<<u, y>>) = IF u < y THEN u ELSE y
        BY <3>1, LowerIs
      <4>3. ~(x < u)
        BY <2>4, Ranks
      <4> QED BY <2>4, <4>1, <4>2, <4>3
    <3>3. CASE u = v
      <4>1. <<x, u>> \notin arcs /\ <<u, y>> \notin arcs
        BY <1>3, <2>0, <3>2, <3>3, Ranks
      <4>2. <<x, y>> \in filling
        BY <1>5, <2>4, <3>1, <3>3, <4>1
      <4> QED BY <1>1, <4>2
    <3>4. CASE u # v
      <4>1. <<x, u>> \in arcs /\ <<u, y>> \in arcs
        BY <1>4, <3>1, <3>2, <3>4
      <4> QED BY <2>0, <2>3, <2>4, <4>1
    <3> QED BY <3>3, <3>4
  <2>5. \A a : Lower(a)' = Lower(a)
    BY DEF Lower
  <2> QED BY <1>1, <2>0, <2>1, <2>2, <2>3, <2>4, <2>5 DEF Filled
<1>9. Together' /\ InOrder' /\ Settled' /\ Weighed' /\ Fitting'
  BY <1>1, <1>2 DEF Together, InOrder, Settled, Weighed, Fitting, Served
<1> QED BY <1>7, <1>8, <1>9 DEF IInv

\* Values over the arcs and turns that stay.
LEMMA ValueStays ==
  ASSUME UNCHANGED hierarchy
  PROVE  \A a, M : Value(cost, weight, a, M)' = Value(cost', weight', a, M')
<1>1. net' = net /\ arcs' = arcs
  BY DEF hierarchy
<1> QED BY <1>1 DEF Value, BaseWeight, Sides, LowerTriangles, Lower

\* The tasks cut out of the elimination tree keep neighbours together.
LEMMA CustomizeHolds ==
  ASSUME IInv, NEW c \in Costs, NEW limit \in TaskLimits, CustomizeBase(c, limit)
  PROVE  IInv'
<1>1. /\ phase = "contract" /\ contracted = N /\ cost' = c /\ task' = Tasks(limit)
      /\ weight' = [a \in arcs |-> BaseWeight(c, a)] /\ phase' = "relax"
      /\ UNCHANGED <<hierarchy, relaxed, queue, queued>>
      /\ UNCHANGED <<net, contracted, pending, arcs>>
  BY DEF CustomizeBase, hierarchy
<1>2. /\ TypeOK /\ Filled /\ relaxed = {} /\ queue = {} /\ queued = {}
      /\ IsNetwork(net) /\ arcs \subseteq Loopless
  BY <1>1 DEF IInv, TypeOK
<1>3. c \in Profiles
  BY HierarchyAssumption DEF Profiles
<1>4. \A a \in arcs : a \in Pairs /\ BaseWeight(c, a) \in Weights
  <2>1. \A a \in arcs : a \in Pairs
    BY <1>2 DEF Loopless
  <2> QED BY <1>2, <1>3, <2>1, BaseFits
<1>5. weight' \in [arcs -> Weights] /\ \A a \in arcs : weight'[a] = BaseWeight(c, a)
  BY <1>1, <1>4
<1>6. TypeOK'
  BY <1>1, <1>2, <1>3, <1>5 DEF TypeOK, Phases
<1>7. Filled'
  BY <1>1, <1>2, FilledStays
<1>8. Together'
  <2>1. limit \in Nat
    BY HierarchyAssumption
  <2>2. \A v \in States : Tasks(limit)[v] # NoState =>
          \A w \in LowerNeighbours(v) : Tasks(limit)[w] = Tasks(limit)[v]
    BY <2>1, TasksFollow
  <2>3. \A v : LowerNeighbours(v)' = LowerNeighbours(v)
    BY <1>1 DEF LowerNeighbours
  <2> QED BY <1>1, <2>2, <2>3 DEF Together
<1>9. Weighed'
  <2>1. ASSUME NEW a \in arcs PROVE weight'[a] = Value(c, weight', a, {})
    <3>1. BaseWeight(c, a) <= BaseWeight(c, a)
      <4>1. BaseWeight(c, a) \in Nat
        BY <1>4, WeightConstants
      <4> QED BY <4>1
    <3>2. IsValue(BaseWeight(c, a), c, weight', a, {})
      BY <1>4, <3>1 DEF IsValue
    <3> QED BY <1>2, <1>3, <1>5, <3>2, ValueIs
  <2>2. \A a \in arcs : Value(cost, weight, a, relaxed)' = Value(c, weight', a, {})
    BY <1>1, <1>2, ValueStays
  <2> QED BY <1>1, <2>1, <2>2 DEF Weighed
<1>10. InOrder' /\ Settled' /\ Fitting'
  BY <1>1, <1>2 DEF InOrder, Settled, Fitting, Served
<1> QED BY <1>6, <1>7, <1>8, <1>9, <1>10 DEF IInv

\* No arc changes once the middle it ends in below was relaxed.
LEMMA RelaxedIsFinal ==
  ASSUME TypeOK, Together, InOrder, phase = "relax",
         NEW v \in States, v \notin relaxed, NEW a \in arcs, v \in LowerTriangles(a)
  PROVE  Lower(a) \notin relaxed
<1> DEFINE l == Lower(a)
<1>1. /\ a \in Loopless /\ arcs \subseteq Loopless
  BY DEF TypeOK
<1>2. /\ l \in States /\ l \in {a[1], a[2]} /\ v < l
      /\ <<a[1], v>> \in arcs /\ <<v, a[2]>> \in arcs
  BY <1>1, LowerIs, TriangleIs
<1> HIDE DEF l
<1>3. v \in LowerNeighbours(l)
  <2>1. v \in 1..(l - 1)
    BY <1>2, Ranks
  <2> QED BY <1>2, <2>1 DEF LowerNeighbours
<1>4. v \in Before(l)
  <2>1. CASE task[l] = NoState
    BY <1>2, <2>1 DEF Before
  <2>2. CASE task[l] # NoState
    <3>1. task[v] = task[l]
      BY <1>2, <1>3, <2>2 DEF Together
    <3>2. v \in 1..(l - 1)
      BY <1>2, Ranks
    <3> QED BY <2>2, <3>1, <3>2 DEF Before
  <2> QED BY <2>1, <2>2
<1> QED BY <1>4 DEF InOrder, l

\* What relaxing a middle makes of an arc.
LEMMA RelaxedArc ==
  ASSUME TypeOK, NEW v \in States, RelaxMiddle(v), NEW a \in arcs
  PROVE  weight'[a] = IF v \in LowerTriangles(a) /\ Sides(weight, a, v) < weight[a]
                      THEN Sides(weight, a, v) ELSE weight[a]
<1>1. /\ a \in Loopless /\ arcs \subseteq Loopless /\ weight \in [arcs -> Weights]
  BY DEF TypeOK, RelaxMiddle
<1>2. v \in LowerTriangles(a) <=> v < Lower(a) /\ <<a[1], v>> \in arcs /\ <<v, a[2]>> \in arcs
  <2>1. Lower(a) \in States
    BY <1>1, LowerIs
  <2>2. v \in 1..(Lower(a) - 1) <=> v < Lower(a)
    BY <2>1, Ranks
  <2> QED BY <2>2 DEF LowerTriangles
<1>3. weight'[a] = IF v \in LowerTriangles(a) THEN Least({weight[a], Sides(weight, a, v)}) ELSE weight[a]
  BY <1>2 DEF RelaxMiddle, Sides
<1>4. CASE v \in LowerTriangles(a)
  <2>1. Sides(weight, a, v) \in Nat /\ weight[a] \in Nat
    BY <1>1, <1>4, SidesFit, WeightConstants
  <2>2. Least({weight[a], Sides(weight, a, v)}) =
          IF weight[a] <= Sides(weight, a, v) THEN weight[a] ELSE Sides(weight, a, v)
    BY <2>1, LeastOfTwo
  <2> QED BY <1>3, <1>4, <2>1, <2>2
<1>5. CASE v \notin LowerTriangles(a)
  BY <1>3, <1>5
<1> QED BY <1>4, <1>5

\* Relaxing a middle counts one triangle more for every arc above it.
LEMMA RelaxHolds ==
  ASSUME IInv, NEW v \in States, RelaxMiddle(v)
  PROVE  IInv'
<1>1. /\ phase = "relax" /\ v \notin relaxed /\ Before(v) \subseteq relaxed
      /\ relaxed' = relaxed \cup {v}
      /\ UNCHANGED <<hierarchy, cost, task, phase, queue, queued>>
      /\ UNCHANGED <<net, contracted, pending, arcs>>
      /\ DOMAIN weight' = arcs
  BY DEF RelaxMiddle, hierarchy
<1>2. /\ TypeOK /\ Filled /\ Together /\ InOrder /\ Weighed
      /\ queue = {} /\ queued = {} /\ IsNetwork(net) /\ arcs \subseteq Loopless
      /\ cost \in Profiles /\ weight \in [arcs -> Weights]
  BY <1>1 DEF IInv, TypeOK
<1>3. \A a \in arcs : weight'[a] = IF v \in LowerTriangles(a) /\ Sides(weight, a, v) < weight[a]
                                   THEN Sides(weight, a, v) ELSE weight[a]
  BY <1>2, RelaxedArc
<1>4. weight' \in [arcs -> Weights]
  <2>1. \A a \in arcs : weight'[a] \in Weights
    <3>1. \A a \in arcs : v \in LowerTriangles(a) => Sides(weight, a, v) \in Weights
      BY <1>2, SidesFit
    <3> QED BY <1>2, <1>3, <3>1
  <2>2. weight' = [a \in arcs |-> weight'[a]]
    BY DEF RelaxMiddle
  <2> QED BY <2>1, <2>2
<1>5. TypeOK'
  BY <1>1, <1>2, <1>4 DEF TypeOK, Phases
<1>6. Filled'
  BY <1>1, <1>2, FilledStays
<1>7. Together'
  <2>1. \A u : LowerNeighbours(u)' = LowerNeighbours(u)
    BY <1>1 DEF LowerNeighbours
  <2> QED BY <1>1, <1>2, <2>1 DEF Together
<1>8. InOrder'
  <2>1. \A u : Before(u)' = Before(u)
    BY <1>1 DEF Before
  <2> QED BY <1>1, <1>2, <2>1 DEF InOrder
<1>9. Weighed'
  <2>1. ASSUME NEW a \in arcs PROVE weight'[a] = Value(cost, weight', a, relaxed \cup {v})
    <3>1. a \in Loopless
      BY <1>2
    <3>2. weight[a] = Value(cost, weight, a, relaxed)
      BY <1>1, <1>2 DEF Weighed
    <3>3. weight'[a] = Value(cost, weight, a, relaxed \cup {v})
      <4>1. Value(cost, weight, a, relaxed \cup {v}) =
              IF v \in LowerTriangles(a) /\ Sides(weight, a, v) < Value(cost, weight, a, relaxed)
              THEN Sides(weight, a, v) ELSE Value(cost, weight, a, relaxed)
        BY <1>2, <3>1, ValueGrows
      <4> QED BY <1>3, <3>2, <4>1
    <3>4. ASSUME NEW b \in arcs, Lower(b) \in relaxed \cup {v} PROVE weight'[b] = weight[b]
      <4>1. v \notin LowerTriangles(b)
        <5>1. CASE Lower(b) = v
          <6>1. b \in Loopless
            BY <1>2
          <6>2. v \in LowerTriangles(b) => v < Lower(b)
            BY <1>2, <6>1, TriangleIs
          <6> QED BY <5>1, <6>2, Ranks
        <5>2. CASE Lower(b) \in relaxed
          BY <1>1, <1>2, <5>2, RelaxedIsFinal
        <5> QED BY <3>4, <5>1, <5>2
      <4> QED BY <1>3, <4>1
    <3>5. ASSUME NEW m \in LowerTriangles(a) \cap (relaxed \cup {v})
          PROVE  weight[<<a[1], m>>] = weight'[<<a[1], m>>] /\ weight[<<m, a[2]>>] = weight'[<<m, a[2]>>]
      <4>1. /\ m \in States /\ m < a[1] /\ m < a[2]
            /\ <<a[1], m>> \in arcs /\ <<m, a[2]>> \in arcs
        BY <1>2, <3>1, TriangleIs
      <4>2. Lower(<<a[1], m>>) = m /\ Lower(<<m, a[2]>>) = m
        <5>1. <<a[1], m>> \in Loopless /\ <<m, a[2]>> \in Loopless
          BY <1>2, <4>1
        <5>2. a[1] \in States /\ a[2] \in States
          BY <3>1, LowerIs
        <5>3. Lower(<<a[1], m>>) = IF a[1] < m THEN a[1] ELSE m
          BY <5>1, LowerIs
        <5>4. Lower(<<m, a[2]>>) = IF m < a[2] THEN m ELSE a[2]
          BY <5>1, LowerIs
        <5> QED BY <4>1, <5>2, <5>3, <5>4, Ranks
      <4> QED BY <3>4, <4>1, <4>2
    <3>6. Value(cost, weight, a, relaxed \cup {v}) = Value(cost, weight', a, relaxed \cup {v})
      BY <1>2, <1>4, <3>1, <3>5, SameValue
    <3> QED BY <3>3, <3>6
  <2>2. \A a \in arcs : Value(cost, weight, a, relaxed)' = Value(cost, weight', a, relaxed \cup {v})
    BY <1>1, ValueStays
  <2> QED BY <1>1, <2>1, <2>2 DEF Weighed
<1>10. Settled' /\ Fitting'
  BY <1>1, <1>2 DEF Settled, Fitting, Served
<1> QED BY <1>5, <1>6, <1>7, <1>8, <1>9, <1>10 DEF IInv

\* When all middles are relaxed, all triangles are counted.
LEMMA FinishHolds == ASSUME IInv, FinishCustomization PROVE IInv'
<1>1. /\ phase = "relax" /\ relaxed = States /\ phase' = Finished /\ relaxed' = {}
      /\ UNCHANGED <<hierarchy, cost, weight, queue, queued>>
      /\ UNCHANGED <<net, contracted, pending, arcs>>
  BY DEF FinishCustomization, hierarchy
<1>2. /\ TypeOK /\ Filled /\ Weighed /\ queue = {} /\ queued = {}
  BY <1>1 DEF IInv, TypeOK
<1>3. phase' \in {"ready", "exact"} /\ (phase' = "ready" => \A a \in arcs : weight[a] # Overflow)
  BY <1>1 DEF Finished
<1>4. TypeOK'
  BY <1>1, <1>2, <1>3 DEF TypeOK, Phases
<1>5. Filled'
  BY <1>1, <1>2, FilledStays
<1>6. Weighed'
  <2>1. \A a \in arcs : weight[a] = Value(cost, weight, a, States)
    BY <1>1, <1>2 DEF Weighed
  <2>2. \A a \in arcs : Value(cost, weight, a, States)' = Value(cost, weight, a, States)
    <3>1. States' = States
      BY DEF States
    <3> QED BY <1>1, <3>1, ValueStays
  <2> QED BY <1>1, <1>3, <2>1, <2>2 DEF Weighed
<1>7. Together' /\ InOrder' /\ Settled' /\ Fitting'
  BY <1>1, <1>2, <1>3 DEF Together, InOrder, Settled, Fitting, Served
<1> QED BY <1>4, <1>5, <1>6, <1>7 DEF IInv

\* An avoid set puts every arc in the queue whose turn it changes.
LEMMA AvoidHolds ==
  ASSUME IInv, NEW changed \in SUBSET States, Avoid(changed)
  PROVE  IInv'
<1>1. /\ phase = "ready" /\ \A x \in changed : cost[x] # Closed
      /\ queued' = queue' /\ phase' = "recustomize"
      /\ queue' = {a \in arcs \cap net.steps : \/ a[2] \in changed /\ cost[a[1]] # Closed
                                               \/ a[1] \in changed}
      /\ UNCHANGED <<hierarchy, task, weight, relaxed>>
      /\ UNCHANGED <<net, contracted, pending, arcs>>
  BY DEF Avoid, hierarchy
<1>2. /\ TypeOK /\ Filled /\ Weighed /\ relaxed = {} /\ queue = {} /\ queued = {}
      /\ IsNetwork(net) /\ arcs \subseteq Loopless
      /\ cost \in Profiles /\ weight \in [arcs -> Weights]
  BY <1>1 DEF IInv, TypeOK
<1>3. PICK closed \in SUBSET changed :
        cost' = [x \in States |-> CASE x \in closed -> Closed
                                    [] x \in changed \ closed -> cost[x] + Raise
                                    [] OTHER -> cost[x]]
  BY DEF Avoid
<1>4. \A x \in States : /\ x \in closed => cost'[x] = Closed
                        /\ x \in changed \ closed => cost'[x] = cost[x] + Raise
                        /\ x \notin changed => cost'[x] = cost[x]
  BY <1>3
<1>5. cost' \in Profiles
  <2>1. ASSUME NEW x \in States PROVE cost'[x] \in Nat \cup {Closed}
    <3>1. CASE x \in closed
      BY <1>4, <3>1
    <3>2. CASE x \in changed \ closed
      <4>1. cost[x] \in Nat
        BY <1>1, <1>2, <3>2 DEF Profiles
      <4>2. Raise \in Nat
        BY HierarchyAssumption
      <4>3. cost[x] + Raise \in Nat
        BY <4>1, <4>2
      <4> QED BY <1>4, <3>2, <4>3
    <3>3. CASE x \notin changed
      BY <1>2, <1>4, <3>3 DEF Profiles
    <3> QED BY <3>1, <3>2, <3>3
  <2>2. cost' = [x \in States |-> cost'[x]]
    BY <1>3
  <2> QED BY <2>1, <2>2 DEF Profiles
<1>6. TypeOK'
  BY <1>1, <1>2, <1>5 DEF TypeOK, Phases
<1>7. Filled'
  BY <1>1, <1>2, FilledStays
<1>8. ASSUME NEW a \in arcs \ queue' PROVE BaseWeight(cost', a) = BaseWeight(cost, a)
  <2>1. a[1] \in States /\ a[2] \in States
    BY <1>2, LowerIs
  <2>2. CASE a \notin net.steps
    BY <2>2 DEF BaseWeight
  <2>3. CASE a \in net.steps
    <3>1. a[1] \notin changed /\ (a[2] \in changed => cost[a[1]] = Closed)
      BY <1>1, <2>3
    <3>2. cost'[a[1]] = cost[a[1]]
      BY <1>4, <2>1, <3>1
    <3>3. CASE a[2] \in changed
      BY <3>1, <3>2, <3>3 DEF BaseWeight
    <3>4. CASE a[2] \notin changed
      <4>1. cost'[a[2]] = cost[a[2]]
        BY <1>4, <2>1, <3>4
      <4> QED BY <3>2, <4>1 DEF BaseWeight
    <3> QED BY <3>3, <3>4
  <2> QED BY <2>2, <2>3
<1>9. Weighed'
  <2>1. ASSUME NEW a \in arcs \ queue' PROVE weight[a] = Value(cost', weight, a, States)
    <3>1. weight[a] = Value(cost, weight, a, States)
      BY <1>1, <1>2 DEF Weighed
    <3>2. a \in Loopless /\ BaseWeight(cost', a) = BaseWeight(cost, a)
      BY <1>2, <1>8
    <3>3. Value(cost, weight, a, States) = Value(cost', weight, a, States)
      BY <1>2, <1>5, <3>2, SameValue
    <3> QED BY <3>1, <3>3
  <2>2. \A a \in arcs : Value(cost, weight, a, States)' = Value(cost', weight, a, States)
    <3>1. States' = States
      BY DEF States
    <3> QED BY <1>1, <3>1, ValueStays
  <2> QED BY <1>1, <2>1, <2>2 DEF Weighed
<1>10. Together' /\ InOrder' /\ Settled' /\ Fitting'
  BY <1>1, <1>2 DEF Together, InOrder, Settled, Fitting, Served
<1> QED BY <1>6, <1>7, <1>9, <1>10 DEF IInv

\* An arc has a as the side of a triangle only if it is a parent of a; the
\* parents rank above it.
LEMMA ParentsAre ==
  ASSUME arcs \subseteq Loopless, NEW a \in arcs
  PROVE  /\ Parents(a) \subseteq arcs
         /\ \A b \in Parents(a) : Lower(a) < Lower(b)
         /\ \A b \in arcs, m \in States :
              m \in LowerTriangles(b) /\ a \in {<<b[1], m>>, <<m, b[2]>>} => b \in Parents(a)
<1>1. /\ a \in Loopless /\ a[1] \in States /\ a[2] \in States /\ a = <<a[1], a[2]>>
      /\ a[1] # a[2] /\ Lower(a) = IF a[1] < a[2] THEN a[1] ELSE a[2]
  BY LowerIs
<1>2. ASSUME NEW b \in arcs
      PROVE  /\ b \in Loopless /\ b[1] \in States /\ b[2] \in States /\ b = <<b[1], b[2]>>
             /\ b[1] # b[2] /\ Lower(b) = IF b[1] < b[2] THEN b[1] ELSE b[2]
  BY LowerIs
<1>3. Downward(a) <=> a[2] < a[1]
  BY DEF Downward
<1>4. ASSUME NEW b \in Parents(a) PROVE b \in arcs /\ Lower(a) < Lower(b)
  <2>1. CASE a[2] < a[1]
    <3>1. b \in arcs /\ b[1] = a[1] /\ b[2] > a[2]
      BY <1>3, <2>1 DEF Parents
    <3> QED BY <1>1, <1>2, <2>1, <3>1, Ranks
  <2>2. CASE ~(a[2] < a[1])
    <3>1. b \in arcs /\ b[2] = a[2] /\ b[1] > a[1]
      BY <1>3, <2>2 DEF Parents
    <3> QED BY <1>1, <1>2, <2>2, <3>1, Ranks
  <2> QED BY <2>1, <2>2
<1>5. ASSUME NEW b \in arcs, NEW m \in States, m \in LowerTriangles(b),
             a \in {<<b[1], m>>, <<m, b[2]>>}
      PROVE  b \in Parents(a)
  <2>1. m < b[1] /\ m < b[2] /\ <<b[1], m>> \in arcs /\ <<m, b[2]>> \in arcs
    BY <1>2, <1>5, TriangleIs
  <2>2. CASE a = <<b[1], m>>
    <3>1. a[1] = b[1] /\ a[2] = m /\ a[2] < a[1]
      BY <2>1, <2>2
    <3>2. b[2] > a[2] /\ <<a[2], b[2]>> \in arcs
      BY <2>1, <3>1
    <3> QED BY <1>3, <3>1, <3>2 DEF Parents
  <2>3. CASE a = <<m, b[2]>>
    <3>1. a[2] = b[2] /\ a[1] = m /\ ~(a[2] < a[1])
      BY <1>1, <2>1, <2>3, Ranks
    <3>2. b[1] > a[1] /\ <<b[1], a[1]>> \in arcs
      BY <2>1, <3>1
    <3> QED BY <1>3, <3>1, <3>2 DEF Parents
  <2> QED BY <1>5, <2>2, <2>3
<1> QED BY <1>4, <1>5

\* The parents of an arc that is recomputed are not settled.
LEMMA ParentsWait ==
  ASSUME TypeOK, Settled, NEW a \in arcs, a \in queue
  PROVE  Parents(a) \cap (queued \ queue) = {}
<1>1. SUFFICES ASSUME NEW b \in Parents(a), b \in queued \ queue PROVE FALSE
  OBVIOUS
<1>2. arcs \subseteq Loopless
  BY DEF TypeOK
<1>3. b \in arcs /\ Lower(a) < Lower(b)
  BY <1>1, <1>2, ParentsAre
<1>4. Lower(b) <= Lower(a)
  BY <1>1 DEF Settled
<1>5. Lower(a) \in States /\ Lower(b) \in States
  BY <1>2, <1>3, LowerIs
<1> QED BY <1>3, <1>4, <1>5, Ranks

\* What an arc is recomputed to, and what waits then.
LEMMA RecomputeIs ==
  ASSUME TypeOK, NEW a \in arcs, Recompute(a)
  PROVE  /\ phase = "recustomize" /\ a \in queue /\ \A b \in queue : Lower(a) <= Lower(b)
         /\ weight' = [weight EXCEPT ![a] = Value(cost, weight, a, States)]
         /\ \E next : /\ queue' = (queue \ {a}) \cup next /\ queued' = queued \cup next
                      /\ next \subseteq Parents(a)
                      /\ Value(cost, weight, a, States) # weight[a] => next = Parents(a) \ queued
                      /\ next \cap queued = {}
         /\ UNCHANGED <<hierarchy, cost, task, phase, relaxed>>
<1> DEFINE value == Least({BaseWeight(cost, a)} \cup
                        {AddWeights(weight[<<a[1], m>>], weight[<<m, a[2]>>]) :
                           m \in LowerTriangles(a)})
           next == IF value = weight[a] THEN {} ELSE Parents(a) \ queued
<1>1. /\ phase = "recustomize" /\ a \in queue /\ \A b \in queue : Lower(a) <= Lower(b)
      /\ weight' = [weight EXCEPT ![a] = value]
      /\ queue' = (queue \ {a}) \cup next /\ queued' = queued \cup next
      /\ UNCHANGED <<hierarchy, cost, task, phase, relaxed>>
  BY Zenon DEF Recompute
<1>2. value = Value(cost, weight, a, States)
  <2>1. a \in Loopless /\ arcs \subseteq Loopless
    BY DEF TypeOK
  <2>2. \A m \in LowerTriangles(a) : m \in States
    BY <2>1, TriangleIs
  <2>3. LowerTriangles(a) \cap States = LowerTriangles(a)
    BY <2>2
  <2>4. Value(cost, weight, a, States) = Least({BaseWeight(cost, a)} \cup
          {AddWeights(weight[<<a[1], m>>], weight[<<m, a[2]>>]) : m \in LowerTriangles(a) \cap States})
    BY Zenon DEF Value, Sides
  <2> QED BY <2>3, <2>4, Zenon
<1> HIDE DEF value
<1>3. next \subseteq Parents(a) /\ (value # weight[a] => next = Parents(a) \ queued) /\ next \cap queued = {}
  OBVIOUS
<1> HIDE DEF next
<1> QED BY <1>1, <1>2, <1>3

\* An arc that changes puts the arcs it is a side of in the queue, all above
\* it.
LEMMA RecomputeHolds ==
  ASSUME IInv, NEW a \in arcs, Recompute(a)
  PROVE  IInv'
<1>1. /\ TypeOK /\ Filled /\ Settled /\ Weighed
  BY DEF IInv
<1>2. /\ phase = "recustomize" /\ a \in queue /\ \A b \in queue : Lower(a) <= Lower(b)
      /\ UNCHANGED <<hierarchy, cost, task, phase, relaxed>>
      /\ UNCHANGED <<net, contracted, pending, arcs>>
  BY <1>1, RecomputeIs DEF hierarchy
<1>3. PICK value : value = Value(cost, weight, a, States)
  OBVIOUS
<1>4. weight' = [weight EXCEPT ![a] = value]
  BY <1>1, <1>3, RecomputeIs
<1>5. PICK next : /\ queue' = (queue \ {a}) \cup next /\ queued' = queued \cup next
                  /\ next \subseteq Parents(a)
                  /\ value # weight[a] => next = Parents(a) \ queued
                  /\ next \cap queued = {}
  BY <1>1, <1>3, RecomputeIs
<1>6. /\ relaxed = {} /\ IsNetwork(net) /\ arcs \subseteq Loopless /\ a \in Loopless
      /\ queue \subseteq queued /\ queued \subseteq arcs
      /\ cost \in Profiles /\ weight \in [arcs -> Weights]
  BY <1>1, <1>2 DEF TypeOK
<1>7. /\ Parents(a) \subseteq arcs /\ \A b \in Parents(a) : Lower(a) < Lower(b)
  BY <1>6, ParentsAre
<1>8. value \in Weights /\ weight' \in [arcs -> Weights]
  <2>1. IsValue(value, cost, weight, a, States)
    BY <1>3, <1>6, ValueIs
  <2>2. value \in Weights
    BY <2>1 DEF IsValue
  <2> QED BY <1>4, <1>6, <2>2
<1>9. weight'[a] = value /\ \A b \in arcs : b # a => weight'[b] = weight[b]
  BY <1>4, <1>6
<1>10. TypeOK'
  BY <1>1, <1>2, <1>5, <1>6, <1>7, <1>8 DEF TypeOK, Phases
<1>11. Filled'
  BY <1>1, <1>2, FilledStays
<1>12. Settled'
  <2>1. ASSUME NEW b \in queued' \ queue', NEW d \in queue' PROVE Lower(b) <= Lower(d)
    <3>1. b \in queued /\ (b = a \/ b \notin queue) /\ b \in arcs
      BY <1>5, <1>6, <2>1
    <3>2. d \in queue \/ d \in Parents(a)
      BY <1>5, <2>1
    <3>3. d \in arcs
      BY <1>6, <1>7, <3>2
    <3>4. Lower(a) \in States /\ Lower(b) \in States /\ Lower(d) \in States
      BY <1>6, <3>1, <3>3, LowerIs
    <3>5. Lower(a) <= Lower(d)
      BY <1>2, <1>7, <3>2, <3>4, Ranks
    <3>6. Lower(b) <= Lower(a)
      <4>1. CASE b = a
        BY <3>4, <4>1, Ranks
      <4>2. CASE b # a
        BY <1>1, <1>2, <3>1, <4>2 DEF Settled
      <4> QED BY <4>1, <4>2
    <3> QED BY <3>4, <3>5, <3>6, Ranks
  <2>2. \A b : Lower(b)' = Lower(b)
    BY DEF Lower
  <2> QED BY <2>1, <2>2 DEF Settled
<1>13. Weighed'
  <2>1. ASSUME NEW b \in arcs \ queue' PROVE weight'[b] = Value(cost, weight', b, States)
    <3>1. b \in Loopless
      BY <1>6
    <3>2. \A m \in LowerTriangles(b) : m \in States
      BY <1>6, <3>1, TriangleIs
    <3>3. ASSUME \A m \in LowerTriangles(b) \cap States :
                   weight[<<b[1], m>>] = weight'[<<b[1], m>>] /\ weight[<<m, b[2]>>] = weight'[<<m, b[2]>>]
          PROVE  Value(cost, weight, b, States) = Value(cost, weight', b, States)
      BY <1>6, <1>8, <3>1, <3>3, SameValue
    <3>4. CASE b = a
      <4>1. \A m \in LowerTriangles(b) \cap States :
              weight[<<b[1], m>>] = weight'[<<b[1], m>>] /\ weight[<<m, b[2]>>] = weight'[<<m, b[2]>>]
        <5>1. \A m \in LowerTriangles(b) \cap States :
                /\ <<b[1], m>> \in arcs /\ <<m, b[2]>> \in arcs
                /\ <<b[1], m>> # b /\ <<m, b[2]>> # b
          BY <1>6, <3>1, TriangleIs
        <5> QED BY <1>9, <3>4, <5>1
      <4> QED BY <1>3, <1>9, <3>3, <3>4, <4>1
    <3>5. CASE b # a
      <4>1. b \notin queue /\ weight'[b] = weight[b]
        BY <1>5, <1>9, <2>1, <3>5
      <4>2. weight[b] = Value(cost, weight, b, States)
        BY <1>1, <1>2, <4>1 DEF Weighed
      <4>3. CASE value = weight[a]
        <5>1. \A d \in arcs : weight'[d] = weight[d]
          BY <1>9, <4>3
        <5>2. \A m \in LowerTriangles(b) \cap States : <<b[1], m>> \in arcs /\ <<m, b[2]>> \in arcs
          BY <1>6, <3>1, TriangleIs
        <5> QED BY <3>3, <4>1, <4>2, <5>1, <5>2
      <4>4. CASE value # weight[a]
        <5>1. b \notin Parents(a)
          <6>1. SUFFICES ASSUME b \in Parents(a) PROVE FALSE
            OBVIOUS
          <6>2. b \in queued \ queue
            BY <1>5, <2>1, <4>1, <4>4, <6>1
          <6>3. Parents(a) \cap (queued \ queue) = {}
            BY <1>1, <1>2, ParentsWait
          <6> QED BY <6>1, <6>2, <6>3
        <5>2. \A m \in LowerTriangles(b) \cap States :
                /\ <<b[1], m>> \in arcs /\ <<m, b[2]>> \in arcs
                /\ <<b[1], m>> # a /\ <<m, b[2]>> # a
          <6>1. \A m \in LowerTriangles(b) \cap States : <<b[1], m>> \in arcs /\ <<m, b[2]>> \in arcs
            BY <1>6, <3>1, TriangleIs
          <6>2. \A m \in LowerTriangles(b) \cap States : a \notin {<<b[1], m>>, <<m, b[2]>>}
            BY <1>6, <5>1, ParentsAre
          <6> QED BY <6>1, <6>2
        <5> QED BY <1>9, <3>3, <4>1, <4>2, <5>2
      <4> QED BY <4>3, <4>4
    <3> QED BY <3>4, <3>5
  <2>2. \A b \in arcs : Value(cost, weight, b, States)' = Value(cost, weight', b, States)
    <3>1. States' = States
      BY DEF States
    <3> QED BY <1>2, <3>1, ValueStays
  <2> QED BY <1>2, <2>1, <2>2 DEF Weighed
<1>14. Together' /\ InOrder' /\ Fitting'
  BY <1>2, <1>6 DEF Together, InOrder, Fitting, Served
<1> QED BY <1>10, <1>11, <1>12, <1>13, <1>14 DEF IInv

\* With an empty queue nothing is left to recompute.
LEMMA FinishAgainHolds == ASSUME IInv, FinishRecustomization PROVE IInv'
<1>1. /\ phase = "recustomize" /\ queue = {} /\ queued' = {}
      /\ phase' = IF Finished = "ready" THEN "avoiding" ELSE "exact"
      /\ UNCHANGED <<hierarchy, cost, task, weight, relaxed, queue>>
      /\ UNCHANGED <<net, contracted, pending, arcs>>
  BY DEF FinishRecustomization, hierarchy
<1>2. TypeOK /\ Filled /\ Weighed /\ relaxed = {}
  BY <1>1 DEF IInv, TypeOK
<1>3. phase' \in {"avoiding", "exact"} /\ (phase' = "avoiding" => \A a \in arcs : weight[a] # Overflow)
  BY <1>1 DEF Finished
<1>4. TypeOK'
  BY <1>1, <1>2, <1>3 DEF TypeOK, Phases
<1>5. Filled'
  BY <1>1, <1>2, FilledStays
<1>6. Weighed'
  <2>1. \A a \in arcs : weight[a] = Value(cost, weight, a, States)
    BY <1>1, <1>2 DEF Weighed
  <2>2. \A a \in arcs : Value(cost, weight, a, States)' = Value(cost, weight, a, States)
    <3>1. States' = States
      BY DEF States
    <3> QED BY <1>1, <3>1, ValueStays
  <2> QED BY <1>1, <1>3, <2>1, <2>2 DEF Weighed
<1>7. Together' /\ InOrder' /\ Settled' /\ Fitting'
  BY <1>1, <1>2, <1>3 DEF Together, InOrder, Settled, Fitting, Served
<1> QED BY <1>4, <1>5, <1>6, <1>7 DEF IInv

\* Every step keeps the invariant.
LEMMA NextHolds == ASSUME IInv, [Next]_vars PROVE IInv'
<1>1. CASE UNCHANGED vars
  <2>1. UNCHANGED <<net, cost, task, phase, contracted, pending, arcs, weight, relaxed, queue, queued>>
    BY <1>1 DEF vars
  <2>2. TypeOK' /\ Filled' /\ Settled' /\ Fitting'
    BY <2>1 DEF IInv, TypeOK, Filled, Settled, Fitting, Served, Lower
  <2>3. Together' /\ InOrder'
    BY <2>1 DEF IInv, Together, InOrder, Before, LowerNeighbours
  <2>4. UNCHANGED hierarchy
    BY <2>1 DEF hierarchy
  <2>5. Weighed'
    <3>1. States' = States
      BY DEF States
    <3>2. \A a, M : Value(cost, weight, a, M)' = Value(cost, weight, a, M')
      BY <2>1, <2>4, ValueStays
    <3> QED BY <2>1, <3>1, <3>2 DEF IInv, Weighed
  <2> QED BY <2>2, <2>3, <2>5 DEF IInv
<1>2. ASSUME NEW c \in Costs, NEW limit \in TaskLimits, CustomizeBase(c, limit) PROVE IInv'
  BY <1>2, CustomizeHolds
<1>3. ASSUME NEW v \in States, RelaxMiddle(v) PROVE IInv'
  BY <1>3, RelaxHolds
<1>4. ASSUME NEW changed \in kSubset(1, States) \cup kSubset(MaxChanged, States), Avoid(changed)
      PROVE  IInv'
  <2>1. changed \in SUBSET States
    BY DEF kSubset
  <2> QED BY <1>4, <2>1, AvoidHolds
<1>5. ASSUME NEW a \in arcs, Recompute(a) PROVE IInv'
  BY <1>5, RecomputeHolds
<1> QED
  BY <1>1, <1>2, <1>3, <1>4, <1>5, ContractHolds, FinishHolds, FinishAgainHolds DEF Next

\* The inductive invariant: no gap is left by a contracted state, the tasks
\* follow the tree, and every arc that waits for nothing weighs what its turn
\* and its triangles say, in whatever order tasks and recomputations run.
THEOREM Invariant == Spec => []IInv
BY InitHolds, NextHolds, PTL DEF Spec

-----------------------------------------------------------------------------
(* The sides of a triangle.                                                *)

FinalSides ==
  \A a \in arcs :
    phase \in {"relax", "recustomize"} /\ weight'[a] # weight[a] =>
      /\ phase = "relax" => Lower(a) \notin relaxed
      /\ Parents(a) \cap (queued \ queue) = {}

\* Every step changes only arcs whose triangles above were not counted.
LEMMA SidesStay == ASSUME IInv, [Next]_vars PROVE FinalSides \/ weight' = weight
<1>1. TypeOK /\ Together /\ InOrder /\ Settled
  BY DEF IInv
<1>2. ASSUME NEW v \in States, RelaxMiddle(v) PROVE FinalSides
  <2>1. phase = "relax" /\ v \notin relaxed /\ queued = {}
    BY <1>1, <1>2 DEF RelaxMiddle, TypeOK
  <2>2. ASSUME NEW a \in arcs, weight'[a] # weight[a] PROVE Lower(a) \notin relaxed
    <3>1. v \in LowerTriangles(a)
      BY <1>1, <1>2, <2>2, RelaxedArc
    <3> QED BY <1>1, <2>1, <3>1, RelaxedIsFinal
  <2> QED BY <2>1, <2>2 DEF FinalSides
<1>3. ASSUME NEW x \in arcs, Recompute(x) PROVE FinalSides
  <2>1. phase = "recustomize" /\ x \in queue /\ weight \in [arcs -> Weights]
    BY <1>1, <1>3, RecomputeIs DEF TypeOK
  <2>2. \A a \in arcs : a # x => weight'[a] = weight[a]
    BY <1>1, <1>3, <2>1, RecomputeIs
  <2>3. Parents(x) \cap (queued \ queue) = {}
    BY <1>1, <2>1, ParentsWait
  <2> QED BY <2>1, <2>2, <2>3 DEF FinalSides
<1>4. CASE Contract \/ \E c \in Costs, limit \in TaskLimits : CustomizeBase(c, limit)
  BY <1>4 DEF FinalSides, Contract, CustomizeBase
<1>5. CASE FinishCustomization \/ FinishRecustomization \/ UNCHANGED vars
  BY <1>5 DEF FinishCustomization, FinishRecustomization, vars
<1>6. ASSUME NEW changed, Avoid(changed) PROVE weight' = weight
  BY <1>6 DEF Avoid
<1> QED BY <1>2, <1>3, <1>4, <1>5, <1>6 DEF Next

\* SidesAreFinal: tasks that run side by side and the partial customization
\* never change an arc after a triangle was computed from it.
THEOREM SidesAreSettled == Spec => SidesAreFinal
<1>1. IInv /\ [Next]_vars => [FinalSides]_weight
  BY SidesStay
<1>2. Spec => [][FinalSides]_weight
  BY <1>1, Invariant, PTL DEF Spec
<1> QED BY <1>2 DEF SidesAreFinal, FinalSides

-----------------------------------------------------------------------------
(* Cheapest walks of any graph over the states.  A length counts up to     *)
(* Infinity, so that sums are monotone and associative without any bound.  *)

Lengths == 0..Infinity

Total(l, r) == IF l + r < Infinity THEN l + r ELSE Infinity

\* Sums of lengths are lengths, monotone and associative.
LEMMA TotalIs ==
  ASSUME NEW l \in Lengths, NEW r \in Lengths
  PROVE  /\ Total(l, r) \in Lengths /\ l <= Total(l, r) /\ r <= Total(l, r)
         /\ Total(0, r) = r /\ Total(l, 0) = l
         /\ \A m \in Lengths, s \in Lengths : l <= m /\ r <= s => Total(l, r) <= Total(m, s)
         /\ \A m \in Lengths : Total(Total(l, r), m) = Total(l, Total(r, m))
<1>1. Infinity \in Nat /\ l \in Nat /\ r \in Nat /\ l <= Infinity /\ r <= Infinity
  BY WeightConstants DEF Lengths
<1>2. Total(l, r) \in Lengths /\ l <= Total(l, r) /\ r <= Total(l, r) /\ Total(0, r) = r /\ Total(l, 0) = l
  BY <1>1 DEF Total, Lengths
<1>3. ASSUME NEW m \in Lengths, NEW s \in Lengths, l <= m, r <= s PROVE Total(l, r) <= Total(m, s)
  BY <1>1, <1>3 DEF Total, Lengths
<1>4. ASSUME NEW m \in Lengths PROVE Total(Total(l, r), m) = Total(l, Total(r, m))
  BY <1>1 DEF Total, Lengths
<1> QED BY <1>2, <1>3, <1>4

Graphs == [Pairs -> Lengths]
Spans  == (SUBSET States) \X States \X States   \* Inner vertices and ends.

\* Where the last step of a walk comes from.
LastStep(walk, longer, base, inner, x, z) ==
  \/ longer[<<inner, x, z>>] = walk[<<inner, x, z>>]
  \/ \E m \in inner : longer[<<inner, x, z>>] = Total(walk[<<inner, x, m>>], base[<<m, z>>])

\* Walks of one step more.
Longer(walk, longer, base) ==
  \A inner \in SUBSET States, x \in States, z \in States :
    /\ longer[<<inner, x, z>>] <= walk[<<inner, x, z>>]
    /\ \A m \in inner : longer[<<inner, x, z>>] <= Total(walk[<<inner, x, m>>], base[<<m, z>>])
    /\ LastStep(walk, longer, base, inner, x, z)

\* walk[n] has the cheapest walks of at most n + 1 steps, n being at most k.
IsWalks(walk, k, base) ==
  /\ walk \in [0..k -> [Spans -> Lengths]]
  /\ \A inner \in SUBSET States, x \in States, z \in States : walk[0][<<inner, x, z>>] = base[<<x, z>>]
  /\ \A n \in 1..k : Longer(walk[n - 1], walk[n], base)

\* There are such walks.
LEMMA WalksExist ==
  ASSUME NEW k \in Nat, NEW base \in Graphs
  PROVE  \E walk : IsWalks(walk, k, base)
<1> DEFINE D == [Spans -> Lengths]
           one == [s \in Spans |-> base[<<s[2], s[3]>>]]
           Ways(walk, s) == {walk[s]} \cup {Total(walk[<<s[1], s[2], m>>], base[<<m, s[3]>>]) : m \in s[1]}
           more(walk) == [s \in Spans |-> Least(Ways(walk, s))]
           next == [p \in (1..k) \X D |-> more(p[2])]
<1>1. one \in D
  <2>1. \A s \in Spans : <<s[2], s[3]>> \in Pairs
    BY DEF Spans, Pairs
  <2> QED BY <2>1 DEF Graphs
<1>2. ASSUME NEW walk \in D, NEW s \in Spans
      PROVE  Ways(walk, s) \in SUBSET Lengths /\ Ways(walk, s) # {}
  <2>1. s[1] \subseteq States /\ s[2] \in States /\ s[3] \in States
    BY DEF Spans
  <2>2. \A m \in s[1] : <<s[1], s[2], m>> \in Spans /\ <<m, s[3]>> \in Pairs
    BY <2>1 DEF Spans, Pairs
  <2>3. \A m \in s[1] : walk[<<s[1], s[2], m>>] \in Lengths /\ base[<<m, s[3]>>] \in Lengths
    BY <2>2 DEF Graphs
  <2>4. \A m \in s[1] : Total(walk[<<s[1], s[2], m>>], base[<<m, s[3]>>]) \in Lengths
    BY <2>3, TotalIs
  <2> QED BY <2>4
<1>3. ASSUME NEW walk \in D, NEW s \in Spans
      PROVE  Least(Ways(walk, s)) \in Ways(walk, s) /\ \A y \in Ways(walk, s) : Least(Ways(walk, s)) <= y
  <2>1. Lengths \subseteq Nat
    BY WeightConstants DEF Lengths
  <2> HIDE DEF Ways
  <2> QED BY <1>2, <2>1, MinIsLeast DEF Least
<1>4. ASSUME NEW walk \in D PROVE more(walk) \in D /\ Longer(walk, more(walk), base)
  <2>1. \A s \in Spans : Least(Ways(walk, s)) \in Lengths
    <3> HIDE DEF Ways
    <3> QED BY <1>2, <1>3
  <2>2. more(walk) \in D
    <3> HIDE DEF Ways
    <3> QED BY <2>1
  <2>3. ASSUME NEW inner \in SUBSET States, NEW x \in States, NEW z \in States
        PROVE  LET s == <<inner, x, z>> IN
               /\ more(walk)[s] <= walk[s]
               /\ \A m \in inner : more(walk)[s] <= Total(walk[<<inner, x, m>>], base[<<m, z>>])
               /\ \/ more(walk)[s] = walk[s]
                  \/ \E m \in inner : more(walk)[s] = Total(walk[<<inner, x, m>>], base[<<m, z>>])
    <3> DEFINE s == <<inner, x, z>>
    <3>1. s \in Spans /\ s[1] = inner /\ s[2] = x /\ s[3] = z
      BY DEF Spans
    <3>2. PICK least : least = Least(Ways(walk, s))
      OBVIOUS
    <3>3. more(walk)[s] = least
      <4> HIDE DEF s, Ways
      <4> QED BY <3>1, <3>2
    <3>4. least \in Ways(walk, s) /\ \A y \in Ways(walk, s) : least <= y
      <4> HIDE DEF s, Ways
      <4> QED BY <1>3, <3>1, <3>2
    <3>5. Ways(walk, s) = {walk[s]} \cup {Total(walk[<<inner, x, m>>], base[<<m, z>>]) : m \in inner}
      BY <3>1
    <3> HIDE DEF s, Ways, more
    <3>6. least <= walk[s] /\ \A m \in inner : least <= Total(walk[<<inner, x, m>>], base[<<m, z>>])
      BY <3>4, <3>5
    <3>7. least = walk[s] \/ \E m \in inner : least = Total(walk[<<inner, x, m>>], base[<<m, z>>])
      BY <3>4, <3>5
    <3> QED BY <3>3, <3>6, <3>7 DEF s
  <2> HIDE DEF more
  <2> QED BY <2>2, <2>3 DEF Longer, LastStep
<1> HIDE DEF more
<1>5. next \in [(1..k) \X D -> D]
  <2>1. \A p \in (1..k) \X D : p[2] \in D
    OBVIOUS
  <2>2. \A p \in (1..k) \X D : more(p[2]) \in D
    BY <1>4, <2>1
  <2> QED BY <2>2
<1>6. PICK walk : Follows(walk, k, D, one, next)
  <2> HIDE DEF D, one, next
  <2> QED BY <1>1, <1>5, Stepwise
<1>7. walk \in [0..k -> D] /\ walk[0] = one /\ \A n \in 1..k : walk[n] = next[<<n, walk[n - 1]>>]
  BY <1>6, Zenon DEF Follows
<1>8. \A n \in 1..k : walk[n - 1] \in D /\ walk[n] = more(walk[n - 1])
  <2>1. \A n \in 1..k : walk[n - 1] \in D
    BY <1>7
  <2> QED BY <1>7, <2>1
<1>9. \A inner \in SUBSET States, x \in States, z \in States : walk[0][<<inner, x, z>>] = base[<<x, z>>]
  <2>1. ASSUME NEW inner \in SUBSET States, NEW x \in States, NEW z \in States
        PROVE  one[<<inner, x, z>>] = base[<<x, z>>]
    <3>1. <<inner, x, z>> \in Spans
      BY DEF Spans
    <3> QED BY <3>1
  <2> HIDE DEF one
  <2> QED BY <1>7, <2>1
<1>10. \A n \in 1..k : Longer(walk[n - 1], walk[n], base)
  BY <1>4, <1>8
<1>11. IsWalks(walk, k, base)
  <2> HIDE DEF next, one
  <2> QED BY <1>7, <1>9, <1>10 DEF IsWalks
<1> QED BY <1>11

\* What one step more gains.
LEMMA WalkStep ==
  ASSUME NEW k \in Nat, NEW base \in Graphs, NEW walk, IsWalks(walk, k, base),
         NEW n \in 0..(k - 1), NEW inner \in SUBSET States, NEW x \in States, NEW z \in States
  PROVE  /\ walk[n + 1][<<inner, x, z>>] <= walk[n][<<inner, x, z>>]
         /\ \A m \in inner : walk[n + 1][<<inner, x, z>>] <= Total(walk[n][<<inner, x, m>>], base[<<m, z>>])
         /\ LastStep(walk[n], walk[n + 1], base, inner, x, z)
<1>1. n + 1 \in 1..k /\ (n + 1) - 1 = n
  OBVIOUS
<1>2. Longer(walk[(n + 1) - 1], walk[n + 1], base)
  BY <1>1 DEF IsWalks
<1>3. Longer(walk[n], walk[n + 1], base)
  BY <1>1, <1>2
<1> QED BY <1>3 DEF Longer

\* All of them are lengths.
LEMMA WalkIsLength ==
  ASSUME NEW k \in Nat, NEW base \in Graphs, NEW walk, IsWalks(walk, k, base)
  PROVE  /\ \A n \in 0..k, inner \in SUBSET States, x \in States, z \in States :
              walk[n][<<inner, x, z>>] \in Lengths
         /\ \A x \in States, z \in States : base[<<x, z>>] \in Lengths
         /\ Lengths \subseteq Nat
<1>1. ASSUME NEW n \in 0..k, NEW inner \in SUBSET States, NEW x \in States, NEW z \in States
      PROVE  walk[n][<<inner, x, z>>] \in Lengths
  <2>1. <<inner, x, z>> \in Spans
    BY DEF Spans
  <2>2. walk[n] \in [Spans -> Lengths]
    BY DEF IsWalks
  <2> QED BY <2>1, <2>2
<1>2. \A x \in States, z \in States : base[<<x, z>>] \in Lengths
  BY DEF Graphs, Pairs
<1> QED BY <1>1, <1>2, WeightConstants DEF Lengths

\* More steps, and more inner vertices, only make a walk cheaper.
LEMMA MoreStepsHelp ==
  ASSUME NEW k \in Nat, NEW base \in Graphs, NEW walk, IsWalks(walk, k, base),
         NEW n \in 0..k, NEW m \in 0..k, n <= m,
         NEW inner \in SUBSET States, NEW x \in States, NEW z \in States
  PROVE  walk[m][<<inner, x, z>>] <= walk[n][<<inner, x, z>>]
<1> DEFINE s == <<inner, x, z>>
           T == {j \in Nat : n + j <= k => walk[n + j][s] <= walk[n][s]}
<1>1. \A j \in 0..k : walk[j][s] \in Nat
  BY WalkIsLength
<1>2. \A j \in 0..(k - 1) : walk[j + 1][s] <= walk[j][s]
  BY WalkStep
<1> HIDE DEF s
<1>3. 0 \in T
  <2>1. n + 0 = n /\ walk[n][s] <= walk[n][s]
    BY <1>1
  <2> QED BY <2>1
<1>4. ASSUME NEW j \in Nat, j \in T PROVE j + 1 \in T
  <2>1. SUFFICES ASSUME n + (j + 1) <= k PROVE walk[n + (j + 1)][s] <= walk[n][s]
    OBVIOUS
  <2>2. /\ n + j <= k /\ n + j \in 0..k /\ n + j \in 0..(k - 1)
        /\ n + (j + 1) \in 0..k /\ (n + j) + 1 = n + (j + 1)
    BY <2>1
  <2>3. walk[n + j][s] <= walk[n][s]
    BY <1>4, <2>2
  <2>4. walk[n + (j + 1)][s] <= walk[n + j][s]
    BY <1>2, <2>2
  <2>5. walk[n + (j + 1)][s] \in Nat /\ walk[n + j][s] \in Nat /\ walk[n][s] \in Nat
    BY <1>1, <2>2
  <2> QED BY <2>3, <2>4, <2>5
<1>5. m - n \in Nat /\ n + (m - n) = m
  OBVIOUS
<1>6. m - n \in T
  <2> HIDE DEF T
  <2> QED BY <1>3, <1>4, <1>5, StepByStep
<1>7. walk[m][s] <= walk[n][s]
  BY <1>5, <1>6
<1> QED BY <1>7 DEF s

\* More inner vertices never cost more.
LEMMA MoreInnerHelps ==
  ASSUME NEW k \in Nat, NEW base \in Graphs, NEW walk, IsWalks(walk, k, base),
         NEW n \in 0..k, NEW wider \in SUBSET States, NEW inner \in SUBSET wider, NEW x \in States
  PROVE  \A z \in States : walk[n][<<wider, x, z>>] <= walk[n][<<inner, x, z>>]
<1> DEFINE T == {j \in Nat : j <= k => \A z \in States : walk[j][<<wider, x, z>>] <= walk[j][<<inner, x, z>>]}
<1>1. /\ \A j \in 0..k, z \in States : walk[j][<<wider, x, z>>] \in Lengths
      /\ \A j \in 0..k, z \in States : walk[j][<<inner, x, z>>] \in Lengths
      /\ \A y \in States, z \in States : base[<<y, z>>] \in Lengths
      /\ Lengths \subseteq Nat
  BY WalkIsLength
<1>2. 0 \in T
  <2>1. \A z \in States : walk[0][<<wider, x, z>>] = base[<<x, z>>] /\ walk[0][<<inner, x, z>>] = base[<<x, z>>]
    BY DEF IsWalks
  <2>2. \A z \in States : base[<<x, z>>] <= base[<<x, z>>]
    BY <1>1
  <2> QED BY <2>1, <2>2
<1>3. ASSUME NEW j \in Nat, j \in T PROVE j + 1 \in T
  <2>1. SUFFICES ASSUME j + 1 <= k, NEW z \in States
                 PROVE  walk[j + 1][<<wider, x, z>>] <= walk[j + 1][<<inner, x, z>>]
    OBVIOUS
  <2>2. /\ j \in 0..k /\ j \in 0..(k - 1) /\ j + 1 \in 0..k
        /\ inner \in SUBSET States
    BY <2>1
  <2>3. \A y \in States : walk[j][<<wider, x, y>>] <= walk[j][<<inner, x, y>>]
    BY <1>3, <2>2
  <2>4. /\ walk[j + 1][<<wider, x, z>>] <= walk[j][<<wider, x, z>>]
        /\ \A m \in wider : walk[j + 1][<<wider, x, z>>] <= Total(walk[j][<<wider, x, m>>], base[<<m, z>>])
    BY <2>2, WalkStep
  <2>5. \/ walk[j + 1][<<inner, x, z>>] = walk[j][<<inner, x, z>>]
        \/ \E m \in inner : walk[j + 1][<<inner, x, z>>] = Total(walk[j][<<inner, x, m>>], base[<<m, z>>])
    <3>1. LastStep(walk[j], walk[j + 1], base, inner, x, z)
      BY <2>2, WalkStep
    <3> QED BY <3>1 DEF LastStep
  <2>6. /\ walk[j + 1][<<wider, x, z>>] \in Nat /\ walk[j][<<wider, x, z>>] \in Nat
        /\ walk[j][<<inner, x, z>>] \in Nat
    BY <1>1, <2>2
  <2>7. CASE walk[j + 1][<<inner, x, z>>] = walk[j][<<inner, x, z>>]
    BY <2>3, <2>4, <2>6, <2>7
  <2>8. CASE \E m \in inner : walk[j + 1][<<inner, x, z>>] = Total(walk[j][<<inner, x, m>>], base[<<m, z>>])
    <3>1. PICK m \in inner : walk[j + 1][<<inner, x, z>>] = Total(walk[j][<<inner, x, m>>], base[<<m, z>>])
      BY <2>8
    <3>2. m \in wider /\ m \in States
      OBVIOUS
    <3>3. /\ walk[j][<<wider, x, m>>] \in Lengths /\ walk[j][<<inner, x, m>>] \in Lengths
          /\ base[<<m, z>>] \in Lengths
      BY <1>1, <2>2, <3>2
    <3>4. base[<<m, z>>] <= base[<<m, z>>]
      <4>1. base[<<m, z>>] \in Nat
        BY <1>1, <3>3
      <4> QED BY <4>1
    <3>5. Total(walk[j][<<wider, x, m>>], base[<<m, z>>]) <= Total(walk[j][<<inner, x, m>>], base[<<m, z>>])
      BY <2>3, <3>2, <3>3, <3>4, TotalIs
    <3>6. /\ Total(walk[j][<<wider, x, m>>], base[<<m, z>>]) \in Nat
          /\ Total(walk[j][<<inner, x, m>>], base[<<m, z>>]) \in Nat
      BY <1>1, <3>3, TotalIs
    <3> QED BY <2>4, <2>6, <3>1, <3>2, <3>5, <3>6
  <2> QED BY <2>5, <2>7, <2>8
<1>4. n \in T
  <2> HIDE DEF T
  <2> QED BY <1>2, <1>3, StepByStep
<1> QED BY <1>4

\* A sum grows with its parts.
LEMMA TotalGrows ==
  ASSUME NEW l \in Lengths, NEW m \in Lengths, NEW r \in Lengths, NEW s \in Lengths, l <= m, r <= s
  PROVE  Total(l, r) <= Total(m, s)
BY TotalIs

\* Sums may be joined in any order.
LEMMA TotalJoins ==
  ASSUME NEW l \in Lengths, NEW m \in Lengths, NEW r \in Lengths
  PROVE  Total(Total(l, m), r) = Total(l, Total(m, r))
BY TotalIs

\* The order of lengths.
LEMMA AtMost ==
  ASSUME NEW l \in Lengths, NEW m \in Lengths, NEW r \in Lengths
  PROVE  l <= l /\ (l <= m /\ m <= r => l <= r)
BY WeightConstants DEF Lengths

\* A walk avoids v, or it is one to v and one from v that do.
LEMMA WalksSplit ==
  ASSUME NEW k \in Nat, NEW base \in Graphs, NEW walk, IsWalks(walk, k, base),
         NEW n \in 0..k, NEW inner \in SUBSET States, NEW v \in inner, NEW x \in States
  PROVE  LET rest == inner \ {v} IN
         \A z \in States :
           \/ walk[n][<<rest, x, z>>] <= walk[n][<<inner, x, z>>]
           \/ Total(walk[n][<<rest, x, v>>], walk[n][<<rest, v, z>>]) <= walk[n][<<inner, x, z>>]
<1> DEFINE rest == inner \ {v}
           T == {j \in Nat : j <= k => \A z \in States :
                   \/ walk[j][<<rest, x, z>>] <= walk[j][<<inner, x, z>>]
                   \/ Total(walk[j][<<rest, x, v>>], walk[j][<<rest, v, z>>]) <= walk[j][<<inner, x, z>>]}
<1>0. rest \in SUBSET States /\ v \in States /\ rest \in SUBSET inner
  OBVIOUS
<1>1. /\ \A j \in 0..k, y \in States, z \in States : walk[j][<<inner, y, z>>] \in Lengths
      /\ \A j \in 0..k, y \in States, z \in States : walk[j][<<rest, y, z>>] \in Lengths
      /\ \A y \in States, z \in States : base[<<y, z>>] \in Lengths
      /\ Lengths \subseteq Nat
  BY <1>0, WalkIsLength
<1>2. 0 \in T
  <2>1. \A z \in States : walk[0][<<rest, x, z>>] = base[<<x, z>>] /\ walk[0][<<inner, x, z>>] = base[<<x, z>>]
    BY <1>0 DEF IsWalks
  <2>2. \A z \in States : base[<<x, z>>] <= base[<<x, z>>]
    BY <1>1, AtMost
  <2> QED BY <2>1, <2>2
<1>3. ASSUME NEW j \in Nat, j \in T PROVE j + 1 \in T
  <2>1. SUFFICES ASSUME j + 1 <= k, NEW z \in States
                 PROVE  \/ walk[j + 1][<<rest, x, z>>] <= walk[j + 1][<<inner, x, z>>]
                        \/ Total(walk[j + 1][<<rest, x, v>>], walk[j + 1][<<rest, v, z>>])
                             <= walk[j + 1][<<inner, x, z>>]
    OBVIOUS
  <2>2. j \in 0..k /\ j \in 0..(k - 1) /\ j + 1 \in 0..k /\ 0 \in 0..k /\ 0 <= j + 1
    BY <2>1
  <2> DEFINE Old(y, u) == walk[j][<<rest, y, u>>]
             New(y, u) == walk[j + 1][<<rest, y, u>>]
             old(u) == walk[j][<<inner, x, u>>]
             new(u) == walk[j + 1][<<inner, x, u>>]
  <2>3. /\ \A y \in States, u \in States : Old(y, u) \in Lengths /\ New(y, u) \in Lengths
        /\ \A u \in States : old(u) \in Lengths /\ new(u) \in Lengths
    BY <1>1, <2>2
  <2>4. \A u \in States : \/ Old(x, u) <= old(u)
                          \/ Total(Old(x, v), Old(v, u)) <= old(u)
    BY <1>3, <2>2
  <2>5. \A y \in States, u \in States : New(y, u) <= Old(y, u)
    BY <1>0, <2>2, WalkStep
  <2>6. \A y \in States, u \in States : \A m \in rest : New(y, u) <= Total(Old(y, m), base[<<m, u>>])
    BY <1>0, <2>2, WalkStep
  <2>7. \A y \in States, u \in States : New(y, u) <= base[<<y, u>>]
    <3>1. \A y \in States, u \in States : walk[j + 1][<<rest, y, u>>] <= walk[0][<<rest, y, u>>]
      BY <1>0, <2>2, MoreStepsHelp
    <3>2. \A y \in States, u \in States : walk[0][<<rest, y, u>>] = base[<<y, u>>]
      BY <1>0 DEF IsWalks
    <3> QED BY <3>1, <3>2
  <2>8. new(z) = old(z) \/ \E m \in inner : new(z) = Total(old(m), base[<<m, z>>])
    <3>1. LastStep(walk[j], walk[j + 1], base, inner, x, z)
      BY <2>2, WalkStep
    <3> QED BY <3>1 DEF LastStep
  <2> SUFFICES New(x, z) <= new(z) \/ Total(New(x, v), New(v, z)) <= new(z)
    OBVIOUS
  <2> HIDE DEF Old, New, old, new, T, rest
  <2>9. Total(New(x, v), New(v, z)) <= Total(Old(x, v), Old(v, z))
    BY <1>0, <2>3, <2>5, TotalGrows
  <2>10. /\ Total(New(x, v), New(v, z)) \in Lengths /\ Total(Old(x, v), Old(v, z)) \in Lengths
         /\ New(x, z) \in Lengths /\ Old(x, z) \in Lengths /\ new(z) \in Lengths /\ old(z) \in Lengths
    BY <1>0, <2>3, TotalIs
  <2>11. CASE new(z) = old(z)
    BY <2>4, <2>5, <2>9, <2>10, <2>11, AtMost
  <2>12. ASSUME NEW m \in inner, new(z) = Total(old(m), base[<<m, z>>])
         PROVE  New(x, z) <= new(z) \/ Total(New(x, v), New(v, z)) <= new(z)
    <3>1. m \in States /\ old(m) \in Lengths /\ base[<<m, z>>] \in Lengths /\ Old(x, m) \in Lengths
      BY <1>1, <2>3
    <3>2. base[<<m, z>>] <= base[<<m, z>>]
      BY <3>1, AtMost
    <3>3. CASE m = v
      <4>1. Old(x, v) <= old(v)
        <5>1. Old(x, v) <= Total(Old(x, v), Old(v, v)) /\ Total(Old(x, v), Old(v, v)) \in Lengths
          BY <1>0, <2>3, TotalIs
        <5> QED BY <1>0, <2>3, <2>4, <5>1, AtMost
      <4>2. New(x, v) <= old(v)
        BY <1>0, <2>3, <2>5, <4>1, AtMost
      <4>3. New(v, z) <= base[<<v, z>>]
        BY <1>0, <2>7
      <4>4. New(x, v) \in Lengths /\ New(v, z) \in Lengths /\ v \in States
        BY <1>0, <2>3
      <4>5. Total(New(x, v), New(v, z)) <= Total(old(v), base[<<v, z>>])
        BY <3>1, <3>3, <4>2, <4>3, <4>4, TotalGrows
      <4> QED BY <2>12, <3>3, <4>5
    <3>4. CASE m # v
      <4>1. m \in rest
        BY <3>4 DEF rest
      <4>2. CASE Old(x, m) <= old(m)
        <5>1. Total(Old(x, m), base[<<m, z>>]) <= new(z)
          BY <2>12, <3>1, <3>2, <4>2, TotalGrows
        <5>2. New(x, z) <= Total(Old(x, m), base[<<m, z>>])
          BY <2>6, <4>1
        <5>3. Total(Old(x, m), base[<<m, z>>]) \in Lengths
          BY <3>1, TotalIs
        <5> QED BY <2>10, <5>1, <5>2, <5>3, AtMost
      <4>3. CASE Total(Old(x, v), Old(v, m)) <= old(m)
        <5>1. Old(x, v) \in Lengths /\ Old(v, m) \in Lengths /\ New(x, v) \in Lengths /\ New(v, z) \in Lengths
          BY <1>0, <2>3, <3>1
        <5>2. /\ Total(Old(x, v), Old(v, m)) \in Lengths /\ Total(Old(v, m), base[<<m, z>>]) \in Lengths
          BY <3>1, <5>1, TotalIs
        <5>3. Total(Total(Old(x, v), Old(v, m)), base[<<m, z>>]) <= new(z)
          BY <2>12, <3>1, <3>2, <4>3, <5>2, TotalGrows
        <5>4. Total(Total(Old(x, v), Old(v, m)), base[<<m, z>>]) = Total(Old(x, v), Total(Old(v, m), base[<<m, z>>]))
          BY <3>1, <5>1, TotalJoins
        <5>5. New(v, z) <= Total(Old(v, m), base[<<m, z>>])
          BY <1>0, <2>6, <4>1
        <5>6. Total(New(x, v), New(v, z)) <= Total(Old(x, v), Total(Old(v, m), base[<<m, z>>]))
          BY <1>0, <2>5, <5>1, <5>2, <5>5, TotalGrows
        <5>7. Total(Old(x, v), Total(Old(v, m), base[<<m, z>>])) \in Lengths
          BY <5>1, <5>2, TotalIs
        <5> QED BY <2>10, <5>3, <5>4, <5>6, <5>7, AtMost
      <4> QED BY <2>4, <3>1, <4>2, <4>3
    <3> QED BY <3>3, <3>4
  <2> QED BY <2>8, <2>11, <2>12
<1>4. n \in T
  <2> HIDE DEF T
  <2> QED BY <1>2, <1>3, StepByStep
<1> QED BY <1>4

\* A walk that ends in v is not shorter for passing through v before.
LEMMA EndsOnce ==
  ASSUME NEW k \in Nat, NEW base \in Graphs, NEW walk, IsWalks(walk, k, base),
         NEW n \in 0..k, NEW inner \in SUBSET States, NEW v \in States, NEW x \in States
  PROVE  walk[n][<<inner \ {v}, x, v>>] <= walk[n][<<inner, x, v>>]
<1> DEFINE rest == inner \ {v}
           short == walk[n][<<rest, x, v>>]
           loop == walk[n][<<rest, v, v>>]
           long == walk[n][<<inner, x, v>>]
<1>1. rest \in SUBSET States
  OBVIOUS
<1>2. short \in Lengths /\ loop \in Lengths /\ long \in Lengths
  BY <1>1, WalkIsLength
<1>3. CASE v \in inner
  <2>1. \A z \in States :
           \/ walk[n][<<rest, x, z>>] <= walk[n][<<inner, x, z>>]
           \/ Total(walk[n][<<rest, x, v>>], walk[n][<<rest, v, z>>]) <= walk[n][<<inner, x, z>>]
    BY <1>3, WalksSplit
  <2>2. short <= long \/ Total(short, loop) <= long
    BY <2>1
  <2> HIDE DEF short, loop, long
  <2>3. short <= Total(short, loop) /\ Total(short, loop) \in Lengths
    BY <1>2, TotalIs
  <2>4. short <= long
    BY <1>2, <2>2, <2>3, AtMost
  <2> QED BY <2>4 DEF short, long
<1>4. CASE v \notin inner
  <2>1. rest = inner
    BY <1>4
  <2>2. long <= long
    <3> HIDE DEF long
    <3> QED BY <1>2, AtMost
  <2> QED BY <2>1, <2>2
<1> QED BY <1>3, <1>4

\* There are N states, and no set of them has more.
LEMMA SizeOfStates ==
  /\ IsFiniteSet(States) /\ Cardinality(States) = N
  /\ \A S \in SUBSET States : IsFiniteSet(S) /\ Cardinality(S) \in Nat /\ Cardinality(S) <= N
<1>1. IsFiniteSet(States) /\ Cardinality(States) = N
  <2>1. 1 \in Int /\ N \in Int
    BY Ranks
  <2>2. Cardinality(1..N) = IF 1 > N THEN 0 ELSE N - 1 + 1
    BY <2>1, FS_Interval
  <2>3. IsFiniteSet(1..N)
    BY <2>1, FS_Interval
  <2> QED BY <2>2, <2>3, Ranks
<1>2. \A S \in SUBSET States : IsFiniteSet(S) /\ Cardinality(S) <= N
  BY <1>1, FS_Subset
<1>3. \A S \in SUBSET States : Cardinality(S) \in Nat
  BY <1>2, FS_CardinalityType
<1> QED BY <1>1, <1>2, <1>3

\* No walk need pass an inner vertex twice, so as many more steps as there are
\* inner vertices are enough.
LEMMA InnerStepsSuffice ==
  ASSUME NEW k \in Nat, NEW base \in Graphs, NEW walk, IsWalks(walk, k, base)
  PROVE  \A inner \in SUBSET States : Cardinality(inner) <= k =>
           \A n \in 0..k, x \in States, z \in States :
             walk[Cardinality(inner)][<<inner, x, z>>] <= walk[n][<<inner, x, z>>]
<1> DEFINE Enough(c, inner) == \A n \in 0..k, x \in States, z \in States :
                                 walk[c][<<inner, x, z>>] <= walk[n][<<inner, x, z>>]
           T == {c \in Nat : c <= k => \A inner \in SUBSET States : Cardinality(inner) = c => Enough(c, inner)}
<1>1. ASSUME NEW c \in 0..k, NEW inner \in SUBSET States,
             \A m \in inner : c - 1 \in 0..k /\ Enough(c - 1, inner \ {m})
      PROVE  Enough(c, inner)
  <2>1. SUFFICES ASSUME NEW x \in States
                 PROVE  \A n \in 0..k : \A z \in States : walk[c][<<inner, x, z>>] <= walk[n][<<inner, x, z>>]
    OBVIOUS
  <2> DEFINE U == {n \in Nat : n <= k => \A z \in States : walk[c][<<inner, x, z>>] <= walk[n][<<inner, x, z>>]}
  <2>2. 0 \in U
    <3>1. 0 \in 0..k /\ 0 <= c
      OBVIOUS
    <3> QED BY <3>1, MoreStepsHelp
  <2>3. ASSUME NEW n \in Nat, n \in U PROVE n + 1 \in U
    <3>1. SUFFICES ASSUME n + 1 <= k, NEW z \in States
                   PROVE  walk[c][<<inner, x, z>>] <= walk[n + 1][<<inner, x, z>>]
      OBVIOUS
    <3>2. n \in 0..k /\ n \in 0..(k - 1) /\ n + 1 \in 0..k /\ n <= k
      BY <3>1
    <3>3. /\ walk[c][<<inner, x, z>>] \in Lengths /\ walk[n + 1][<<inner, x, z>>] \in Lengths
          /\ walk[n][<<inner, x, z>>] \in Lengths
      BY <3>2, WalkIsLength
    <3>4. LastStep(walk[n], walk[n + 1], base, inner, x, z)
      BY <3>2, WalkStep
    <3>5. CASE walk[n + 1][<<inner, x, z>>] = walk[n][<<inner, x, z>>]
      BY <2>3, <3>2, <3>5
    <3>6. ASSUME NEW m \in inner, walk[n + 1][<<inner, x, z>>] = Total(walk[n][<<inner, x, m>>], base[<<m, z>>])
          PROVE  walk[c][<<inner, x, z>>] <= walk[n + 1][<<inner, x, z>>]
      <4> DEFINE rest == inner \ {m}
                 d == c - 1
      <4>1. /\ m \in States /\ rest \in SUBSET States /\ rest \in SUBSET inner
            /\ d \in 0..k /\ d \in 0..(k - 1) /\ d + 1 = c /\ Enough(d, rest)
        BY <1>1
      <4> HIDE DEF d
      <4>2. walk[n][<<rest, x, m>>] <= walk[n][<<inner, x, m>>]
        BY <3>2, <4>1, EndsOnce
      <4>3. walk[d][<<rest, x, m>>] <= walk[n][<<rest, x, m>>]
        BY <3>2, <4>1
      <4>4. walk[d][<<inner, x, m>>] <= walk[d][<<rest, x, m>>]
        BY <4>1, MoreInnerHelps
      <4> HIDE DEF rest
      <4>5. /\ walk[n][<<rest, x, m>>] \in Lengths /\ walk[n][<<inner, x, m>>] \in Lengths
            /\ walk[d][<<rest, x, m>>] \in Lengths /\ walk[d][<<inner, x, m>>] \in Lengths
            /\ base[<<m, z>>] \in Lengths
        BY <3>2, <4>1, WalkIsLength
      <4>6. walk[d][<<inner, x, m>>] <= walk[n][<<inner, x, m>>] /\ base[<<m, z>>] <= base[<<m, z>>]
        <5>1. walk[d][<<inner, x, m>>] <= walk[n][<<rest, x, m>>]
          BY <4>3, <4>4, <4>5, AtMost
        <5> QED BY <4>2, <4>5, <5>1, AtMost
      <4>7. Total(walk[d][<<inner, x, m>>], base[<<m, z>>]) <= walk[n + 1][<<inner, x, z>>]
        BY <3>6, <4>5, <4>6, TotalGrows
      <4>8. walk[d + 1][<<inner, x, z>>] <= Total(walk[d][<<inner, x, m>>], base[<<m, z>>])
        BY <4>1, WalkStep
      <4>9. walk[c][<<inner, x, z>>] <= Total(walk[d][<<inner, x, m>>], base[<<m, z>>])
        BY <4>1, <4>8
      <4>10. Total(walk[d][<<inner, x, m>>], base[<<m, z>>]) \in Lengths
        BY <4>5, TotalIs
      <4> QED BY <3>3, <4>7, <4>9, <4>10, AtMost
    <3> QED BY <3>4, <3>5, <3>6 DEF LastStep
  <2>4. Nat \subseteq U
    <3> HIDE DEF U
    <3> QED BY <2>2, <2>3, StepByStep
  <2> QED BY <2>4
<1>2. 0 \in T
  <2>1. SUFFICES ASSUME NEW inner \in SUBSET States, Cardinality(inner) = 0 PROVE Enough(0, inner)
    OBVIOUS
  <2>2. inner = {}
    BY <2>1, SizeOfStates, FS_EmptySet
  <2>3. 0 \in 0..k /\ \A m \in inner : FALSE
    BY <2>2
  <2> HIDE DEF Enough
  <2> QED BY <1>1, <2>3
<1>3. ASSUME NEW c \in Nat, c \in T PROVE c + 1 \in T
  <2>1. SUFFICES ASSUME c + 1 <= k, NEW inner \in SUBSET States, Cardinality(inner) = c + 1
                 PROVE  Enough(c + 1, inner)
    OBVIOUS
  <2>2. c + 1 \in 0..k /\ (c + 1) - 1 = c /\ c \in 0..k /\ c <= k
    BY <2>1
  <2>3. ASSUME NEW m \in inner PROVE Enough(c, inner \ {m})
    <3>1. IsFiniteSet(inner)
      BY SizeOfStates
    <3>2. Cardinality(inner \ {m}) = c
      <4>1. Cardinality(inner \ {m}) = Cardinality(inner) - 1
        BY <3>1, FS_RemoveElement
      <4> QED BY <2>1, <4>1
    <3>3. inner \ {m} \in SUBSET States
      OBVIOUS
    <3> HIDE DEF Enough
    <3> QED BY <1>3, <2>2, <3>2, <3>3
  <2> HIDE DEF Enough
  <2> QED BY <1>1, <2>2, <2>3
<1>4. Nat \subseteq T
  <2> HIDE DEF T
  <2> QED BY <1>2, <1>3, StepByStep
<1>5. ASSUME NEW inner \in SUBSET States, Cardinality(inner) <= k
      PROVE  Enough(Cardinality(inner), inner)
  <2>1. Cardinality(inner) \in Nat
    BY SizeOfStates
  <2> HIDE DEF Enough
  <2> QED BY <1>4, <1>5, <2>1
<1> QED BY <1>5

\* A walk of N steps is as cheap as any.
LEMMA StepsSuffice ==
  ASSUME NEW k \in Nat, N - 1 <= k, NEW base \in Graphs, NEW walk, IsWalks(walk, k, base),
         NEW n \in 0..k, NEW inner \in SUBSET States, NEW x \in States, NEW z \in States
  PROVE  walk[N - 1][<<inner, x, z>>] <= walk[n][<<inner, x, z>>]
<1> DEFINE rest == inner \ {z}
           c == Cardinality(rest)
<1>1. rest \in SUBSET States /\ rest \in SUBSET inner
  OBVIOUS
<1>2. c \in Nat /\ c <= N - 1
  <2>1. IsFiniteSet(States \ {z}) /\ Cardinality(States \ {z}) = N - 1
    BY SizeOfStates, FS_RemoveElement
  <2>2. rest \subseteq States \ {z}
    OBVIOUS
  <2>3. c <= Cardinality(States \ {z})
    <3> HIDE DEF rest
    <3> QED BY <2>1, <2>2, FS_Subset
  <2>4. c \in Nat
    BY <1>1, SizeOfStates
  <2> QED BY <2>1, <2>3, <2>4
<1> HIDE DEF c
<1>3. N - 1 \in 0..k /\ c \in 0..k /\ c <= k
  BY <1>2, Ranks
<1>4. walk[n][<<rest, x, z>>] <= walk[n][<<inner, x, z>>]
  BY EndsOnce
<1>5. walk[c][<<rest, x, z>>] <= walk[n][<<rest, x, z>>]
  <2> HIDE DEF rest
  <2> QED BY <1>1, <1>3, InnerStepsSuffice DEF c
<1>6. walk[N - 1][<<rest, x, z>>] <= walk[c][<<rest, x, z>>]
  BY <1>1, <1>2, <1>3, MoreStepsHelp
<1>7. walk[N - 1][<<inner, x, z>>] <= walk[N - 1][<<rest, x, z>>]
  BY <1>1, <1>3, MoreInnerHelps
<1> HIDE DEF rest
<1>8. /\ walk[n][<<rest, x, z>>] \in Lengths /\ walk[n][<<inner, x, z>>] \in Lengths
      /\ walk[c][<<rest, x, z>>] \in Lengths /\ walk[N - 1][<<rest, x, z>>] \in Lengths
      /\ walk[N - 1][<<inner, x, z>>] \in Lengths
  BY <1>1, <1>3, WalkIsLength
<1>9. walk[c][<<rest, x, z>>] <= walk[n][<<inner, x, z>>]
  BY <1>4, <1>5, <1>8, AtMost
<1>10. walk[N - 1][<<rest, x, z>>] <= walk[n][<<inner, x, z>>]
  BY <1>6, <1>8, <1>9, AtMost
<1> QED BY <1>7, <1>8, <1>10, AtMost

\* One walk after another is a walk.
LEMMA WalksJoin ==
  ASSUME NEW k \in Nat, NEW base \in Graphs, NEW walk, IsWalks(walk, k, base),
         NEW n \in Nat, NEW i \in Nat, n + i + 1 <= k,
         NEW inner \in SUBSET States, NEW v \in inner, NEW x \in States
  PROVE  \A z \in States :
           walk[n + i + 1][<<inner, x, z>>] <= Total(walk[n][<<inner, x, v>>], walk[i][<<inner, v, z>>])
<1> DEFINE T == {j \in Nat : n + j + 1 <= k => \A z \in States :
                   walk[n + j + 1][<<inner, x, z>>] <= Total(walk[n][<<inner, x, v>>], walk[j][<<inner, v, z>>])}
<1>0. v \in States /\ n \in 0..k /\ n \in 0..(k - 1) /\ 0 \in 0..k
  OBVIOUS
<1>1. PICK a \in Lengths : a = walk[n][<<inner, x, v>>]
  BY <1>0, WalkIsLength
<1>2. 0 \in T
  <2>1. SUFFICES ASSUME NEW z \in States
                 PROVE  walk[n + 0 + 1][<<inner, x, z>>] <= Total(walk[n][<<inner, x, v>>], walk[0][<<inner, v, z>>])
    OBVIOUS
  <2>2. n + 0 + 1 = n + 1 /\ walk[0][<<inner, v, z>>] = base[<<v, z>>]
    <3>1. n + 0 + 1 = n + 1
      OBVIOUS
    <3>2. walk[0][<<inner, v, z>>] = base[<<v, z>>]
      BY <1>0 DEF IsWalks
    <3> QED BY <3>1, <3>2
  <2>3. walk[n + 1][<<inner, x, z>>] <= Total(walk[n][<<inner, x, v>>], base[<<v, z>>])
    BY <1>0, WalkStep
  <2> QED BY <2>2, <2>3
<1>3. ASSUME NEW j \in Nat, j \in T PROVE j + 1 \in T
  <2>1. SUFFICES ASSUME n + (j + 1) + 1 <= k, NEW z \in States
                 PROVE  walk[n + (j + 1) + 1][<<inner, x, z>>]
                          <= Total(walk[n][<<inner, x, v>>], walk[j + 1][<<inner, v, z>>])
    OBVIOUS
  <2>2. PICK l \in Nat : l = n + j + 1
    OBVIOUS
  <2>3. /\ l \in 0..k /\ l \in 0..(k - 1) /\ l + 1 \in 0..k /\ n + (j + 1) + 1 = l + 1 /\ n + j + 1 <= k
        /\ j \in 0..k /\ j \in 0..(k - 1) /\ j + 1 \in 0..k
    BY <2>1, <2>2
  <2>4. \A y \in States : walk[l][<<inner, x, y>>] <= Total(a, walk[j][<<inner, v, y>>])
    BY <1>1, <1>3, <2>2, <2>3
  <2>5. walk[l + 1][<<inner, x, z>>] <= walk[l][<<inner, x, z>>]
    BY <2>3, WalkStep
  <2>6. /\ \A y \in States : walk[l][<<inner, x, y>>] \in Lengths /\ walk[j][<<inner, v, y>>] \in Lengths
        /\ walk[l + 1][<<inner, x, z>>] \in Lengths
        /\ \A y \in States : base[<<y, z>>] \in Lengths
    BY <1>0, <2>3, WalkIsLength
  <2>7. LastStep(walk[j], walk[j + 1], base, inner, v, z)
    BY <1>0, <2>3, WalkStep
  <2>8. CASE walk[j + 1][<<inner, v, z>>] = walk[j][<<inner, v, z>>]
    <3>1. Total(a, walk[j][<<inner, v, z>>]) \in Lengths
      BY <2>6, TotalIs
    <3>2. walk[l + 1][<<inner, x, z>>] <= Total(a, walk[j][<<inner, v, z>>])
      BY <2>4, <2>5, <2>6, <3>1, AtMost
    <3> QED BY <1>1, <2>3, <2>8, <3>2
  <2>9. ASSUME NEW m \in inner, walk[j + 1][<<inner, v, z>>] = Total(walk[j][<<inner, v, m>>], base[<<m, z>>])
        PROVE  walk[l + 1][<<inner, x, z>>] <= Total(a, walk[j + 1][<<inner, v, z>>])
    <3>1. m \in States
      OBVIOUS
    <3>2. PICK b \in Lengths : b = walk[j][<<inner, v, m>>]
      BY <2>6, <3>1
    <3>3. PICK c \in Lengths : c = base[<<m, z>>]
      BY <2>6, <3>1
    <3>4. PICK d \in Lengths : d = walk[l][<<inner, x, m>>]
      BY <2>6, <3>1
    <3>5. d <= Total(a, b)
      BY <2>4, <3>1, <3>2, <3>4
    <3>6. walk[l + 1][<<inner, x, z>>] <= Total(d, c)
      BY <2>3, <3>3, <3>4, WalkStep
    <3>7. c <= c /\ Total(a, b) \in Lengths /\ Total(d, c) \in Lengths /\ Total(Total(a, b), c) \in Lengths
      <4>1. Total(a, b) \in Lengths
        BY TotalIs
      <4> QED BY <4>1, TotalIs, AtMost
    <3>8. Total(d, c) <= Total(Total(a, b), c)
      BY <3>5, <3>7, TotalGrows
    <3>9. Total(Total(a, b), c) = Total(a, Total(b, c))
      BY TotalJoins
    <3>10. walk[l + 1][<<inner, x, z>>] <= Total(Total(a, b), c)
      BY <2>6, <3>6, <3>7, <3>8, AtMost
    <3> QED BY <2>9, <3>2, <3>3, <3>9, <3>10
  <2>10. walk[l + 1][<<inner, x, z>>] <= Total(a, walk[j + 1][<<inner, v, z>>])
    BY <1>1, <2>3, <2>7, <2>8, <2>9 DEF LastStep
  <2> QED BY <1>1, <2>3, <2>10
<1>4. i \in T
  <2> HIDE DEF T
  <2> QED BY <1>2, <1>3, StepByStep
<1> QED BY <1>4

\* What is true of the cheapest walks through any inner vertices.
Metric(dist, base) ==
  /\ \A inner \in SUBSET States, x \in States, z \in States : dist[<<inner, x, z>>] \in Lengths
  /\ \A x \in States, z \in States : dist[<<{}, x, z>>] = base[<<x, z>>]
  /\ \A wider \in SUBSET States : \A inner \in SUBSET wider, x \in States, z \in States :
       dist[<<wider, x, z>>] <= dist[<<inner, x, z>>]
  /\ \A inner \in SUBSET States : \A v \in inner, x \in States, z \in States :
       /\ dist[<<inner, x, z>>] <= Total(dist[<<inner, x, v>>], dist[<<inner, v, z>>])
       /\ \/ dist[<<inner \ {v}, x, z>>] <= dist[<<inner, x, z>>]
          \/ Total(dist[<<inner \ {v}, x, v>>], dist[<<inner \ {v}, v, z>>]) <= dist[<<inner, x, z>>]

\* N - 1 inner steps suffice, and twice as many give nothing more.
LEMMA WalksAreMetric ==
  ASSUME NEW base \in Graphs, NEW walk, IsWalks(walk, 2 * N, base)
  PROVE  Metric(walk[N - 1], base)
<1> DEFINE k == 2 * N
           dist == walk[N - 1]
<1>0. /\ k \in Nat /\ N - 1 \in Nat /\ N - 1 \in 0..k /\ N - 1 <= k /\ 0 \in 0..k /\ 0 <= N - 1
      /\ (N - 1) + (N - 1) + 1 <= k /\ (N - 1) + (N - 1) + 1 \in 0..k
  BY Ranks
<1>00. IsWalks(walk, k, base)
  OBVIOUS
<1> HIDE DEF k
<1>1. \A inner \in SUBSET States, x \in States, z \in States : dist[<<inner, x, z>>] \in Lengths
  BY <1>0, <1>00, WalkIsLength
<1>2. ASSUME NEW x \in States, NEW z \in States PROVE dist[<<{}, x, z>>] = base[<<x, z>>]
  <2>1. walk[0][<<{}, x, z>>] = base[<<x, z>>]
    BY <1>00 DEF IsWalks
  <2>2. {} \in SUBSET States /\ Cardinality({}) = 0
    BY FS_EmptySet
  <2>3. Cardinality({}) <= k
    BY <1>0, <2>2
  <2>4. walk[Cardinality({})][<<{}, x, z>>] <= walk[N - 1][<<{}, x, z>>]
    BY <1>0, <1>00, <2>2, <2>3, InnerStepsSuffice
  <2>5. walk[0][<<{}, x, z>>] <= walk[N - 1][<<{}, x, z>>]
    BY <2>2, <2>4
  <2>6. walk[N - 1][<<{}, x, z>>] <= walk[0][<<{}, x, z>>]
    BY <1>0, <1>00, <2>2, MoreStepsHelp
  <2>7. walk[0][<<{}, x, z>>] \in Nat /\ walk[N - 1][<<{}, x, z>>] \in Nat
    BY <1>0, <1>00, <2>2, WalkIsLength
  <2> QED BY <2>1, <2>5, <2>6, <2>7
<1>3. \A wider \in SUBSET States : \A inner \in SUBSET wider, x \in States, z \in States :
        dist[<<wider, x, z>>] <= dist[<<inner, x, z>>]
  BY <1>0, <1>00, MoreInnerHelps
<1>4. ASSUME NEW inner \in SUBSET States, NEW v \in inner, NEW x \in States, NEW z \in States
      PROVE  dist[<<inner, x, z>>] <= Total(dist[<<inner, x, v>>], dist[<<inner, v, z>>])
  <2> DEFINE long == walk[(N - 1) + (N - 1) + 1][<<inner, x, z>>]
  <2>1. long <= Total(dist[<<inner, x, v>>], dist[<<inner, v, z>>])
    BY <1>0, <1>00, WalksJoin
  <2>2. dist[<<inner, x, z>>] <= long
    BY <1>0, <1>00, StepsSuffice
  <2>3. long \in Lengths
    BY <1>0, <1>00, WalkIsLength
  <2> HIDE DEF long, dist
  <2>4. v \in States /\ dist[<<inner, x, v>>] \in Lengths /\ dist[<<inner, v, z>>] \in Lengths /\ dist[<<inner, x, z>>] \in Lengths
    BY <1>1
  <2>5. Total(dist[<<inner, x, v>>], dist[<<inner, v, z>>]) \in Lengths
    BY <2>4, TotalIs
  <2> QED BY <2>1, <2>2, <2>3, <2>4, <2>5, AtMost
<1>5. ASSUME NEW inner \in SUBSET States, NEW v \in inner, NEW x \in States, NEW z \in States
      PROVE  \/ dist[<<inner \ {v}, x, z>>] <= dist[<<inner, x, z>>]
             \/ Total(dist[<<inner \ {v}, x, v>>], dist[<<inner \ {v}, v, z>>]) <= dist[<<inner, x, z>>]
  BY <1>0, <1>00, WalksSplit
<1> HIDE DEF dist
<1>6. Metric(dist, base)
  BY <1>1, <1>2, <1>3, <1>4, <1>5 DEF Metric
<1> QED BY <1>6 DEF dist

-----------------------------------------------------------------------------
(* The reference of the model, CheapestFrom, is such a walk: no sum of the *)
(* weights of N steps comes near Infinity.                                 *)

\* More steps may weigh more.
LEMMA Grows ==
  ASSUME NEW a \in Nat, NEW b \in Nat, a <= b
  PROVE  a * Overflow \in Nat /\ a * Overflow <= b * Overflow /\ (a + 1) * Overflow = a * Overflow + Overflow
<1>1. PICK d \in Nat : b = a + d
  <2>1. b - a \in Nat /\ b = a + (b - a)
    OBVIOUS
  <2> QED BY <2>1
<1>2. (a + d) * Overflow = a * Overflow + d * Overflow
  BY WeightConstants
<1>3. d * Overflow \in Nat /\ a * Overflow \in Nat
  BY WeightConstants
<1> QED BY <1>1, <1>2, <1>3, WeightConstants

\* A length of n steps that can be summed.
Fit(l, n) == l \in Lengths /\ (l = Infinity \/ l <= n * Overflow)

\* A length of few steps is one of more.
LEMMA FitGrows ==
  ASSUME NEW n \in Nat, NEW m \in Nat, n <= m, NEW l, Fit(l, n)
  PROVE  Fit(l, m)
<1>1. n * Overflow <= m * Overflow /\ n * Overflow \in Nat /\ m * Overflow \in Nat
  BY Grows
<1> QED BY <1>1, WeightConstants DEF Fit, Lengths

\* One step more.
LEMMA FitAdds ==
  ASSUME NEW n \in Nat, NEW l, Fit(l, n), NEW w \in Weights
  PROVE  Fit(Total(l, w), n + 1) /\ Fit(w, 1)
<1>1. (n + 1) * Overflow = n * Overflow + Overflow /\ n * Overflow \in Nat /\ n <= n
  BY Grows
<1>2. /\ w \in Lengths /\ (w = Infinity \/ w <= Overflow) /\ l \in Lengths
      /\ l = Infinity \/ l <= n * Overflow
  BY WeightConstants DEF Weights, Fit, Lengths
<1>3. Total(l, w) \in Lengths
  BY <1>2, TotalIs
<1>4. Total(l, w) = Infinity \/ Total(l, w) <= n * Overflow + Overflow
  BY <1>1, <1>2, WeightConstants DEF Total, Lengths
<1>5. 1 * Overflow = Overflow
  BY WeightConstants
<1> QED BY <1>1, <1>2, <1>3, <1>4, <1>5 DEF Fit

\* The sums of the model never come near Infinity: they are the sums of
\* lengths.
LEMMA TotalIsPlus ==
  ASSUME NEW l, Fit(l, N), NEW r, Fit(r, N)
  PROVE  Plus(l, r) = Total(l, r)
<1>1. 2 * (N * Overflow) < Infinity
  BY HierarchyAssumption
<1>2. PICK b \in Nat : b = N * Overflow
  BY Ranks, Grows
<1>3. l \in Lengths /\ r \in Lengths /\ (l = Infinity \/ l <= b) /\ (r = Infinity \/ r <= b) /\ 2 * b < Infinity
  BY <1>1, <1>2 DEF Fit
<1>4. CASE l = Infinity \/ r = Infinity
  <2>1. l + r >= Infinity
    BY <1>3, <1>4, WeightConstants DEF Lengths
  <2>2. ~(l + r < Infinity)
    BY <1>3, <2>1, WeightConstants DEF Lengths
  <2> QED BY <1>4, <2>2 DEF Plus, Total
<1>5. CASE l # Infinity /\ r # Infinity
  <2>1. l + r < Infinity
    BY <1>3, <1>5, WeightConstants DEF Lengths
  <2> QED BY <1>5, <2>1 DEF Plus, Total
<1> QED BY <1>4, <1>5

\* A walk of n + 1 steps has the length of one.
LEMMA WalksFit ==
  ASSUME NEW k \in Nat, NEW base \in [Pairs -> Weights], NEW walk, IsWalks(walk, k, base)
  PROVE  \A n \in 0..k, inner \in SUBSET States, x \in States, z \in States :
           Fit(walk[n][<<inner, x, z>>], n + 1)
<1> DEFINE T == {n \in Nat : n <= k => \A inner \in SUBSET States, x \in States, z \in States :
                   Fit(walk[n][<<inner, x, z>>], n + 1)}
<1>1. base \in Graphs /\ \A x \in States, z \in States : base[<<x, z>>] \in Weights
  <2>1. Weights \subseteq Lengths
    BY WeightConstants DEF Weights, Lengths
  <2> QED BY <2>1 DEF Graphs, Pairs
<1>2. 0 \in T
  <2>1. SUFFICES ASSUME NEW inner \in SUBSET States, NEW x \in States, NEW z \in States
                 PROVE  Fit(walk[0][<<inner, x, z>>], 0 + 1)
    OBVIOUS
  <2>2. walk[0][<<inner, x, z>>] = base[<<x, z>>]
    BY DEF IsWalks
  <2>3. 0 * Overflow = 0
    BY WeightConstants
  <2>4. Fit(0, 0)
    BY <2>3, WeightConstants DEF Fit, Lengths
  <2>5. Fit(base[<<x, z>>], 1)
    BY <1>1, <2>4, FitAdds
  <2> QED BY <2>2, <2>5
<1>3. ASSUME NEW n \in Nat, n \in T PROVE n + 1 \in T
  <2>1. SUFFICES ASSUME n + 1 <= k, NEW inner \in SUBSET States, NEW x \in States, NEW z \in States
                 PROVE  Fit(walk[n + 1][<<inner, x, z>>], (n + 1) + 1)
    OBVIOUS
  <2>2. n \in 0..k /\ n \in 0..(k - 1) /\ n <= k /\ n + 1 <= (n + 1) + 1 /\ n + 1 \in Nat /\ (n + 1) + 1 \in Nat
    BY <2>1
  <2>3. \A y \in States : Fit(walk[n][<<inner, x, y>>], n + 1)
    BY <1>3, <2>2
  <2>4. LastStep(walk[n], walk[n + 1], base, inner, x, z)
    BY <1>1, <2>2, WalkStep
  <2>5. CASE walk[n + 1][<<inner, x, z>>] = walk[n][<<inner, x, z>>]
    BY <2>2, <2>3, <2>5, FitGrows
  <2>6. ASSUME NEW m \in inner, walk[n + 1][<<inner, x, z>>] = Total(walk[n][<<inner, x, m>>], base[<<m, z>>])
        PROVE  Fit(walk[n + 1][<<inner, x, z>>], (n + 1) + 1)
    <3>1. Fit(walk[n][<<inner, x, m>>], n + 1) /\ base[<<m, z>>] \in Weights
      BY <1>1, <2>3
    <3> QED BY <2>2, <2>6, <3>1, FitAdds
  <2> QED BY <2>4, <2>5, <2>6 DEF LastStep
<1>4. Nat \subseteq T
  <2> HIDE DEF T
  <2> QED BY <1>2, <1>3, StepByStep
<1>5. ASSUME NEW n \in 0..k
      PROVE  \A inner \in SUBSET States, x \in States, z \in States : Fit(walk[n][<<inner, x, z>>], n + 1)
  <2>1. n \in T /\ n <= k
    <3> HIDE DEF T
    <3> QED BY <1>4
  <2>2. n <= k => \A inner \in SUBSET States, x \in States, z \in States :
                    Fit(walk[n][<<inner, x, z>>], n + 1)
    BY <2>1
  <2> QED BY <2>1, <2>2
<1> QED BY <1>5

\* Tabulating changes nothing.
LEMMA TabulatedIs == ASSUME NEW f PROVE Tabulated(f) = f
<1>1. \E g \in {f} : g = f
  OBVIOUS
<1> QED BY <1>1 DEF Tabulated

\* The walks of one step more that CheapestFrom finds.
Extended(shorter, base, inner) ==
  Tabulated([z \in States |-> Least({shorter[z]} \cup {Plus(shorter[m], base[<<m, z>>]) : m \in inner})])

IsCheapest(f, base, inner, x) ==
  f = [n \in 1..Cardinality(States) |->
         IF n = 1 THEN Tabulated([z \in States |-> base[<<x, z>>]])
         ELSE Extended(f[n - 1], base, inner)]

\* The reference extends walks by one step as the sequence of walks does.
LEMMA ExtendedIs ==
  ASSUME NEW base \in [Pairs -> Weights], NEW k \in Nat, NEW walk, IsWalks(walk, k, base),
         NEW n \in 0..(k - 1), n + 1 < N, NEW inner \in SUBSET States, NEW x \in States
  PROVE  Extended([z \in States |-> walk[n][<<inner, x, z>>]], base, inner)
           = [z \in States |-> walk[n + 1][<<inner, x, z>>]]
<1> DEFINE shorter == [z \in States |-> walk[n][<<inner, x, z>>]]
           Ways(z) == {shorter[z]} \cup {Plus(shorter[m], base[<<m, z>>]) : m \in inner}
<1>1. n \in Nat /\ n \in 0..k /\ n + 1 \in 0..k /\ n + 1 \in Nat /\ n + 1 <= N /\ 1 <= N /\ 1 \in Nat /\ N \in Nat
  BY Ranks
<1>2. base \in Graphs /\ Weights \subseteq Lengths
  <2>1. Weights \subseteq Lengths
    BY WeightConstants DEF Weights, Lengths
  <2> QED BY <2>1 DEF Graphs
<1>3. \A z \in States : shorter[z] \in Lengths /\ Fit(shorter[z], n + 1) /\ walk[n + 1][<<inner, x, z>>] \in Lengths
  BY <1>1, <1>2, WalkIsLength, WalksFit
<1>4. \A z \in States : /\ walk[n + 1][<<inner, x, z>>] <= shorter[z]
                        /\ \A m \in inner : walk[n + 1][<<inner, x, z>>] <= Total(shorter[m], base[<<m, z>>])
                        /\ LastStep(walk[n], walk[n + 1], base, inner, x, z)
  BY <1>1, <1>2, WalkStep
<1>5. \A z \in States : \/ walk[n + 1][<<inner, x, z>>] = shorter[z]
                        \/ \E m \in inner : walk[n + 1][<<inner, x, z>>] = Total(shorter[m], base[<<m, z>>])
  <2>1. \A m \in inner : shorter[m] = walk[n][<<inner, x, m>>]
    OBVIOUS
  <2> QED BY <1>4, <2>1 DEF LastStep
<1> HIDE DEF shorter
<1>6. ASSUME NEW z \in States, NEW m \in inner
      PROVE  /\ Plus(shorter[m], base[<<m, z>>]) = Total(shorter[m], base[<<m, z>>])
             /\ Total(shorter[m], base[<<m, z>>]) \in Lengths
  <2>1. m \in States /\ <<m, z>> \in Pairs
    BY DEF Pairs
  <2>2. base[<<m, z>>] \in Weights
    BY <2>1
  <2>3. Fit(0, 0)
    <3>1. 0 * Overflow = 0
      BY WeightConstants
    <3> QED BY <3>1, WeightConstants DEF Fit, Lengths
  <2>4. Fit(base[<<m, z>>], 1)
    BY <2>2, <2>3, FitAdds
  <2>5. Fit(base[<<m, z>>], N) /\ Fit(shorter[m], N)
    BY <1>1, <1>3, <2>1, <2>4, FitGrows
  <2>6. Total(shorter[m], base[<<m, z>>]) \in Lengths
    BY <1>2, <1>3, <2>1, <2>2, TotalIs
  <2> QED BY <2>5, <2>6, TotalIsPlus
<1>7. ASSUME NEW z \in States PROVE Least(Ways(z)) = walk[n + 1][<<inner, x, z>>]
  <2>1. PICK l \in Lengths : l = walk[n + 1][<<inner, x, z>>]
    BY <1>3
  <2>2. Ways(z) = {shorter[z]} \cup {Total(shorter[m], base[<<m, z>>]) : m \in inner}
    BY <1>6
  <2>3. Ways(z) \in SUBSET Lengths /\ l \in Ways(z) /\ \A y \in Ways(z) : l <= y
    BY <1>3, <1>4, <1>5, <1>6, <2>1, <2>2
  <2> HIDE DEF Ways
  <2>4. Lengths \subseteq Nat
    BY WeightConstants DEF Lengths
  <2>5. PICK least : least = Least(Ways(z))
    OBVIOUS
  <2>6. least \in Ways(z) /\ \A y \in Ways(z) : least <= y
    BY <2>3, <2>4, <2>5, MinIsLeast DEF Least
  <2>7. least \in Nat /\ l \in Nat /\ l <= least /\ least <= l
    BY <2>3, <2>4, <2>6
  <2> QED BY <2>1, <2>5, <2>7
<1>8. Extended(shorter, base, inner) = [z \in States |-> Least(Ways(z))]
  BY TabulatedIs DEF Extended
<1> HIDE DEF Ways
<1>9. [z \in States |-> Least(Ways(z))] = [z \in States |-> walk[n + 1][<<inner, x, z>>]]
  BY <1>7
<1>10. Extended(shorter, base, inner) = [z \in States |-> walk[n + 1][<<inner, x, z>>]]
  BY <1>8, <1>9
<1> QED BY <1>10 DEF shorter

\* The reference finds the walks of N steps.
LEMMA CheapestIs ==
  ASSUME NEW base \in [Pairs -> Weights], NEW k \in Nat, N <= k, NEW walk, IsWalks(walk, k, base),
         NEW inner \in SUBSET States, NEW x \in States
  PROVE  \A z \in States : CheapestFrom(States, base, inner, x)[z] = walk[N - 1][<<inner, x, z>>]
<1> DEFINE reach(n) == [z \in States |-> walk[n - 1][<<inner, x, z>>]]
           g == [n \in 1..N |-> reach(n)]
           cheapest == CHOOSE f : IsCheapest(f, base, inner, x)
<1>1. Cardinality(States) = N /\ N \in 1..N /\ N \in Nat
  BY SizeOfStates, Ranks
<1>2. reach(1) = Tabulated([z \in States |-> base[<<x, z>>]])
  <2>1. \A z \in States : walk[1 - 1][<<inner, x, z>>] = base[<<x, z>>]
    BY DEF IsWalks
  <2>2. reach(1) = [z \in States |-> base[<<x, z>>]]
    BY <2>1
  <2>3. Tabulated([z \in States |-> base[<<x, z>>]]) = [z \in States |-> base[<<x, z>>]]
    BY TabulatedIs
  <2> QED BY <2>2, <2>3
<1>3. \A n \in 2..N : reach(n) = Extended(reach(n - 1), base, inner)
  <2>1. ASSUME NEW n \in 2..N PROVE reach(n) = Extended(reach(n - 1), base, inner)
    <3>1. PICK i \in Nat : i = n - 2
      OBVIOUS
    <3>2. i \in 0..(k - 1) /\ i + 1 < N /\ n - 1 = i + 1 /\ (n - 1) - 1 = i
      BY <1>1, <3>1
    <3>3. Extended([z \in States |-> walk[i][<<inner, x, z>>]], base, inner)
            = [z \in States |-> walk[i + 1][<<inner, x, z>>]]
      BY <3>2, ExtendedIs
    <3> QED BY <3>2, <3>3
  <2> HIDE DEF reach
  <2> QED BY <2>1
<1> HIDE DEF reach
<1>4. IsCheapest(g, base, inner, x)
  <2>1. \A n \in 1..N : g[n] = IF n = 1 THEN Tabulated([z \in States |-> base[<<x, z>>]])
                               ELSE Extended(g[n - 1], base, inner)
    <3>1. \A n \in 1..N : n # 1 => n \in 2..N /\ n - 1 \in 1..N
      BY <1>1
    <3> QED BY <1>2, <1>3, <3>1
  <2>2. g = [n \in 1..N |-> g[n]]
    OBVIOUS
  <2> HIDE DEF g
  <2> QED BY <1>1, <2>1, <2>2, Zenon DEF IsCheapest
<1>5. IsCheapest(cheapest, base, inner, x)
  <2> HIDE DEF g
  <2> QED BY <1>4, Zenon
<1>6. CheapestFrom(States, base, inner, x) = cheapest[N]
  <2>1. CheapestFrom(States, base, inner, x) = cheapest[Cardinality(States)]
    BY Zenon DEF CheapestFrom, IsCheapest, Extended
  <2> QED BY <1>1, <2>1
<1> HIDE DEF cheapest
<1>7. \A n \in 1..N : cheapest[n] = IF n = 1 THEN Tabulated([z \in States |-> base[<<x, z>>]])
                                   ELSE Extended(cheapest[n - 1], base, inner)
  BY <1>1, <1>5, Zenon DEF IsCheapest
<1> DEFINE T == {n \in Nat : n + 1 <= N => cheapest[n + 1] = reach(n + 1)}
<1>8. 0 \in T
  <2>1. 1 \in 1..N /\ 0 + 1 = 1
    BY <1>1
  <2> QED BY <1>2, <1>7, <2>1
<1>9. ASSUME NEW n \in Nat, n \in T PROVE n + 1 \in T
  <2>1. SUFFICES ASSUME (n + 1) + 1 <= N PROVE cheapest[(n + 1) + 1] = reach((n + 1) + 1)
    OBVIOUS
  <2>2. PICK i : i = (n + 1) + 1
    OBVIOUS
  <2>3. i \in 1..N /\ i \in 2..N /\ i # 1 /\ i - 1 = n + 1 /\ n + 1 <= N
    BY <1>1, <2>1, <2>2
  <2>4. cheapest[i - 1] = reach(i - 1)
    BY <1>9, <2>3
  <2>5. cheapest[i] = Extended(cheapest[i - 1], base, inner)
    BY <1>7, <2>3
  <2>6. reach(i) = Extended(reach(i - 1), base, inner)
    BY <1>3, <2>3
  <2> QED BY <2>2, <2>4, <2>5, <2>6
<1>10. cheapest[N] = reach(N)
  <2>1. N - 1 \in Nat /\ (N - 1) + 1 = N /\ N <= N
    BY <1>1
  <2>2. N - 1 \in T
    <3> HIDE DEF T
    <3> QED BY <1>8, <1>9, <2>1, StepByStep
  <2> QED BY <2>1, <2>2
<1>11. \A z \in States : reach(N)[z] = walk[N - 1][<<inner, x, z>>]
  BY DEF reach
<1> QED BY <1>6, <1>10, <1>11

\* The cheapest walks, as the reference finds them.
IsShortest(dist, base) ==
  /\ Metric(dist, base)
  /\ \A inner \in SUBSET States, x \in States, z \in States : Fit(dist[<<inner, x, z>>], N)
  /\ \A inner \in SUBSET States, x \in States, z \in States :
       CheapestFrom(States, base, inner, x)[z] = dist[<<inner, x, z>>]

\* The walks that the reference finds have all the properties of a metric.
LEMMA ShortestExists ==
  ASSUME NEW base \in [Pairs -> Weights]
  PROVE  \E dist : IsShortest(dist, base)
<1>1. base \in Graphs /\ 2 * N \in Nat /\ N <= 2 * N /\ N - 1 \in 0..(2 * N) /\ (N - 1) + 1 = N
  <2>1. Weights \subseteq Lengths
    BY WeightConstants DEF Weights, Lengths
  <2> QED BY <2>1, Ranks DEF Graphs
<1>2. PICK walk : IsWalks(walk, 2 * N, base)
  BY <1>1, WalksExist
<1>3. Metric(walk[N - 1], base)
  BY <1>1, <1>2, WalksAreMetric
<1>4. \A inner \in SUBSET States, x \in States, z \in States : Fit(walk[N - 1][<<inner, x, z>>], (N - 1) + 1)
  BY <1>1, <1>2, WalksFit
<1>5. \A inner \in SUBSET States, x \in States, z \in States :
        CheapestFrom(States, base, inner, x)[z] = walk[N - 1][<<inner, x, z>>]
  <2>1. PICK k \in Nat : k = 2 * N /\ N <= k /\ IsWalks(walk, k, base)
    BY <1>1, <1>2
  <2>2. ASSUME NEW inner \in SUBSET States, NEW x \in States
        PROVE  \A z \in States : CheapestFrom(States, base, inner, x)[z] = walk[N - 1][<<inner, x, z>>]
    BY <2>1, CheapestIs
  <2> QED BY <2>2
<1>6. IsShortest(walk[N - 1], base)
  BY <1>1, <1>3, <1>4, <1>5 DEF IsShortest
<1> QED BY <1>6

\* A walk goes over the next state in the order, or it is one without it.
LEMMA OneMore ==
  ASSUME NEW dist, NEW base, Metric(dist, base), NEW k \in Nat, NEW m \in States, k + 1 = m,
         NEW x \in States, NEW z \in States
  PROVE  LET with    == dist[<<1..m, x, z>>]
             without == dist[<<1..k, x, z>>]
             over    == Total(dist[<<1..k, x, m>>], dist[<<1..k, m, z>>])
         IN  /\ with \in Lengths /\ without \in Lengths /\ over \in Lengths
             /\ with <= without /\ with <= over /\ with \in {without, over}
             /\ m \in {x, z} => with = without
<1>1. /\ 1..m \in SUBSET States /\ 1..k \in SUBSET States /\ 1..k \in SUBSET (1..m) /\ m \in 1..m
      /\ (1..m) \ {m} = 1..k
  BY Ranks
<1>2. PICK with \in Lengths, without \in Lengths, p \in Lengths, q \in Lengths, pp \in Lengths, qq \in Lengths :
        /\ with = dist[<<1..m, x, z>>] /\ without = dist[<<1..k, x, z>>]
        /\ p = dist[<<1..k, x, m>>] /\ q = dist[<<1..k, m, z>>]
        /\ pp = dist[<<1..m, x, m>>] /\ qq = dist[<<1..m, m, z>>]
  <2>1. /\ dist[<<1..m, x, z>>] \in Lengths /\ dist[<<1..k, x, z>>] \in Lengths
        /\ dist[<<1..k, x, m>>] \in Lengths /\ dist[<<1..k, m, z>>] \in Lengths
        /\ dist[<<1..m, x, m>>] \in Lengths /\ dist[<<1..m, m, z>>] \in Lengths
    BY <1>1 DEF Metric
  <2> QED BY <2>1
<1>3. with <= without /\ pp <= p /\ qq <= q
  BY <1>1, <1>2 DEF Metric
<1>4. with <= Total(pp, qq) /\ (without <= with \/ Total(p, q) <= with)
  BY <1>1, <1>2 DEF Metric
<1>5. Total(pp, qq) <= Total(p, q) /\ Total(pp, qq) \in Lengths /\ Total(p, q) \in Lengths
  BY <1>3, TotalGrows, TotalIs
<1>6. Lengths \subseteq Nat
  BY WeightConstants DEF Lengths
<1>7. PICK over \in Lengths : over = Total(p, q)
  BY <1>5
<1>8. with <= over
  <2>1. PICK longer \in Lengths : longer = Total(pp, qq)
    BY <1>5
  <2>2. with <= longer /\ longer <= over
    BY <1>4, <1>5, <1>7, <2>1
  <2> QED BY <1>6, <2>2
<1>9. with \in {without, over}
  BY <1>3, <1>4, <1>6, <1>7, <1>8
<1>10. ASSUME m \in {x, z} PROVE with = without
  <2>1. without = q \/ without = p
    BY <1>2, <1>10
  <2>2. p <= over /\ q <= over
    BY <1>7, TotalIs
  <2> QED BY <1>3, <1>6, <1>8, <1>9, <2>1, <2>2
<1> QED BY <1>2, <1>3, <1>7, <1>8, <1>9, <1>10

\* A length as a weight.
Saturated(l) == IF l = Infinity THEN Infinity ELSE IF l <= Overflow THEN l ELSE Overflow

\* Cutting off at Overflow is monotone and keeps weights.
LEMMA SaturatedIs ==
  ASSUME NEW l \in Lengths, NEW r \in Lengths
  PROVE  /\ Saturated(l) \in Weights
         /\ l <= r => Saturated(l) <= Saturated(r)
         /\ l \in Weights => Saturated(l) = l
         /\ Saturated(l) = Infinity <=> l = Infinity
         /\ Saturated(l) # Overflow => Saturated(l) = l
         /\ Saturated(l) = IF l = Infinity THEN Infinity ELSE Least({l, Overflow})
<1>1. l \in Nat /\ r \in Nat /\ l <= Infinity /\ r <= Infinity
  BY WeightConstants DEF Lengths
<1>2. Least({l, Overflow}) = IF l <= Overflow THEN l ELSE Overflow
  BY <1>1, WeightConstants, LeastOfTwo
<1>3. Saturated(l) \in Weights
  BY <1>1, WeightConstants DEF Saturated, Weights
<1>4. l <= r => Saturated(l) <= Saturated(r)
  BY <1>1, WeightConstants DEF Saturated
<1>5. l \in Weights => Saturated(l) = l
  BY <1>1, WeightConstants DEF Saturated, Weights
<1>6. Saturated(l) = Infinity <=> l = Infinity
  BY <1>1, WeightConstants DEF Saturated
<1>7. Saturated(l) # Overflow => Saturated(l) = l
  BY DEF Saturated
<1>8. Saturated(l) = IF l = Infinity THEN Infinity ELSE Least({l, Overflow})
  BY <1>2 DEF Saturated
<1> QED BY <1>3, <1>4, <1>5, <1>6, <1>7, <1>8

\* Adding cut-off lengths is cutting off their sum.
LEMMA SaturatedAdds ==
  ASSUME NEW l, Fit(l, N), NEW r, Fit(r, N)
  PROVE  Saturated(Total(l, r)) = AddWeights(Saturated(l), Saturated(r))
<1>1. 2 * (N * Overflow) < Infinity
  BY HierarchyAssumption
<1>2. PICK b \in Nat : b = N * Overflow
  BY Ranks, Grows
<1>3. l \in Lengths /\ r \in Lengths /\ (l = Infinity \/ l <= b) /\ (r = Infinity \/ r <= b) /\ 2 * b < Infinity
  BY <1>1, <1>2 DEF Fit
<1>4. l \in Nat /\ r \in Nat /\ l <= Infinity /\ r <= Infinity
  BY <1>3, WeightConstants DEF Lengths
<1>5. Saturated(l) \in Weights /\ Saturated(r) \in Weights
  BY <1>3, SaturatedIs
<1>6. PICK sl \in Weights, sr \in Weights : sl = Saturated(l) /\ sr = Saturated(r)
  BY <1>5
<1>7. AddWeights(sl, sr) = IF sl = Infinity \/ sr = Infinity THEN Infinity
                           ELSE IF sl + sr <= Overflow THEN sl + sr ELSE Overflow
  BY AddedFits
<1>8. CASE l = Infinity \/ r = Infinity
  <2>1. sl = Infinity \/ sr = Infinity
    BY <1>6, <1>8 DEF Saturated
  <2>2. Total(l, r) = Infinity
    BY <1>4, <1>8, WeightConstants DEF Total
  <2> QED BY <1>6, <1>7, <2>1, <2>2 DEF Saturated
<1>9. CASE l # Infinity /\ r # Infinity
  <2>1. l + r < Infinity
    BY <1>3, <1>4, <1>9, WeightConstants
  <2>2. Total(l, r) = l + r
    BY <2>1 DEF Total
  <2>3. /\ sl = IF l <= Overflow THEN l ELSE Overflow
        /\ sr = IF r <= Overflow THEN r ELSE Overflow
    BY <1>6, <1>9 DEF Saturated
  <2>4. sl # Infinity /\ sr # Infinity
    BY <1>4, <1>9, <2>3, WeightConstants
  <2>5. AddWeights(sl, sr) = IF l + r <= Overflow THEN l + r ELSE Overflow
    BY <1>4, <1>7, <2>3, <2>4, WeightConstants
  <2>6. Saturated(l + r) = IF l + r <= Overflow THEN l + r ELSE Overflow
    BY <2>1, <1>4, WeightConstants DEF Saturated
  <2> QED BY <1>6, <2>2, <2>5, <2>6
<1> QED BY <1>8, <1>9

-----------------------------------------------------------------------------
(* The weights are those of cheapest walks through lower ranks.            *)

\* Only middles below both ends count.
LEMMA ValueIsBelow ==
  ASSUME IsNetwork(net), arcs \subseteq Loopless,
         NEW c \in Profiles, NEW w \in [arcs -> Weights], NEW a \in Loopless
  PROVE  Value(c, w, a, 1..(Lower(a) - 1)) = Value(c, w, a, States)
<1>1. PICK v : v = Value(c, w, a, States)
  OBVIOUS
<1>2. IsValue(v, c, w, a, States)
  BY <1>1, ValueIs
<1>3. LowerTriangles(a) \cap (1..(Lower(a) - 1)) = LowerTriangles(a) \cap States
  <2>1. Lower(a) \in States
    BY LowerIs
  <2>2. 1..(Lower(a) - 1) \subseteq States
    BY <2>1, Ranks
  <2> QED BY <2>2 DEF LowerTriangles
<1>4. IsValue(v, c, w, a, 1..(Lower(a) - 1))
  BY <1>2, <1>3 DEF IsValue
<1> QED BY <1>1, <1>4, ValueIs

\* A hierarchy whose weights are settled.
Customized ==
  /\ IsNetwork(net) /\ arcs \subseteq Loopless /\ cost \in Profiles /\ weight \in [arcs -> Weights]
  /\ net.steps \subseteq arcs
  /\ \A x, y, v \in States :
       x # y /\ v < x /\ v < y /\ <<x, v>> \in arcs /\ <<v, y>> \in arcs => <<x, y>> \in arcs
  /\ \A a \in arcs : weight[a] = Value(cost, weight, a, States)

\* The invariant gives that once the weights are served.
LEMMA InvariantCustomizes ==
  ASSUME IInv, phase \in {"ready", "avoiding", "exact"}
  PROVE  Customized
<1>1. TypeOK /\ Filled /\ Weighed
  BY DEF IInv
<1>2. phase \notin {"contract", "relax", "recustomize"}
  OBVIOUS
<1>3. queue = {} /\ contracted = N
  BY <1>1, <1>2 DEF TypeOK
<1>4. pending = {}
  <2>1. ASSUME NEW a \in pending PROVE FALSE
    <3>1. a \in Loopless /\ Lower(a) > N
      BY <1>1, <1>3 DEF TypeOK, Filled
    <3> QED BY <3>1, LowerIs, Ranks
  <2> QED BY <2>1
<1>5. \A a \in arcs : weight[a] = Value(cost, weight, a, States)
  BY <1>1, <1>2, <1>3 DEF Weighed
<1>6. /\ net.steps \subseteq arcs
      /\ \A x, y, v \in States :
           x # y /\ v < x /\ v < y /\ <<x, v>> \in arcs /\ <<v, y>> \in arcs => <<x, y>> \in arcs
  BY <1>1, <1>4 DEF Filled
<1> QED BY <1>1, <1>2, <1>5, <1>6 DEF TypeOK, Customized

Turns == [a \in Pairs |-> BaseWeight(cost, a)]

\* The weight between two states, Infinity where there is no arc.
Link(x, y) == IF <<x, y>> \in arcs THEN weight[<<x, y>>] ELSE Infinity

\* What an arc weighs once the triangles over 1..k are counted.
Partial(x, y, k) == IF <<x, y>> \in arcs THEN Value(cost, weight, <<x, y>>, 1..k) ELSE Infinity

\* It is the turn before any triangle, and the weight after all below both
\* ends.
LEMMA PartialIs ==
  ASSUME Customized, NEW x \in States, NEW y \in States, x # y
  PROVE  /\ \A k : Partial(x, y, k) \in Weights
         /\ Partial(x, y, 0) = Turns[<<x, y>>]
         /\ \A k \in Nat : (k + 1 = x /\ x < y) \/ (k + 1 = y /\ y < x) => Partial(x, y, k) = Link(x, y)
<1>1. /\ IsNetwork(net) /\ arcs \subseteq Loopless /\ cost \in Profiles /\ weight \in [arcs -> Weights]
      /\ net.steps \subseteq arcs /\ \A a \in arcs : weight[a] = Value(cost, weight, a, States)
  BY DEF Customized
<1>2. PICK a \in Loopless : a = <<x, y>>
  BY DEF Loopless, Pairs
<1>3. a \in Pairs /\ a[1] = x /\ a[2] = y
  BY <1>2 DEF Loopless
<1>4. ASSUME NEW k PROVE Partial(x, y, k) \in Weights
  <2>1. IsValue(Value(cost, weight, a, 1..k), cost, weight, a, 1..k)
    BY <1>1, ValueIs
  <2>2. Value(cost, weight, a, 1..k) \in Weights
    BY <2>1 DEF IsValue
  <2> QED BY <1>2, <2>2 DEF Partial, Weights
<1>5. Partial(x, y, 0) = Turns[a]
  <2>1. Turns[a] = BaseWeight(cost, a)
    BY <1>3 DEF Turns
  <2>2. BaseWeight(cost, a) \in Weights /\ (a \notin arcs => BaseWeight(cost, a) = Infinity)
    BY <1>1, <1>3, BaseFits
  <2>3. PICK b : b = BaseWeight(cost, a)
    OBVIOUS
  <2>4. IsValue(b, cost, weight, a, 1..0)
    <3>1. b <= b /\ 1..0 = {}
      <4>1. b \in Nat
        BY <2>2, <2>3, WeightConstants
      <4> QED BY <4>1
    <3> QED BY <2>2, <2>3, <3>1 DEF IsValue
  <2>5. Value(cost, weight, a, 1..0) = b
    BY <1>1, <2>4, ValueIs
  <2> QED BY <1>2, <2>1, <2>2, <2>3, <2>5 DEF Partial
<1>6. ASSUME NEW k \in Nat, (k + 1 = x /\ x < y) \/ (k + 1 = y /\ y < x)
      PROVE  Partial(x, y, k) = Link(x, y)
  <2>1. Lower(a) - 1 = k
    BY <1>2, <1>3, <1>6, LowerIs, Ranks
  <2>2. Value(cost, weight, a, 1..k) = Value(cost, weight, a, States)
    BY <1>1, <2>1, ValueIsBelow
  <2> QED BY <1>1, <1>2, <2>2 DEF Partial, Link
<1> QED BY <1>2, <1>4, <1>5, <1>6

\* Middle m adds its triangle, if both its sides are arcs.
LEMMA PartialGrows ==
  ASSUME Customized, NEW x \in States, NEW y \in States, x # y,
         NEW k \in Nat, NEW m \in States, k + 1 = m, m < x, m < y
  PROVE  LET over == AddWeights(Link(x, m), Link(m, y))
         IN  Partial(x, y, m) = IF over < Partial(x, y, k) THEN over ELSE Partial(x, y, k)
<1>1. /\ IsNetwork(net) /\ arcs \subseteq Loopless /\ cost \in Profiles /\ weight \in [arcs -> Weights]
      /\ \A u, z, v \in States :
           u # z /\ v < u /\ v < z /\ <<u, v>> \in arcs /\ <<v, z>> \in arcs => <<u, z>> \in arcs
  BY DEF Customized
<1>2. PICK a \in Loopless : a = <<x, y>>
  BY DEF Loopless, Pairs
<1>3. a[1] = x /\ a[2] = y
  BY <1>2
<1>4. PICK old \in Weights : old = Partial(x, y, k)
  BY PartialIs
<1>5. 1..m = (1..k) \cup {m}
  BY Ranks
<1>6. m \in LowerTriangles(a) <=> <<x, m>> \in arcs /\ <<m, y>> \in arcs
  <2>1. m \in 1..(Lower(a) - 1)
    <3>1. Lower(a) \in States /\ Lower(a) \in {x, y}
      BY <1>3, LowerIs
    <3> QED BY <3>1, Ranks
  <2> QED BY <1>3, <2>1 DEF LowerTriangles
<1>7. CASE <<x, m>> \in arcs /\ <<m, y>> \in arcs
  <2>1. a \in arcs
    BY <1>1, <1>2, <1>7
  <2>2. Sides(weight, a, m) = AddWeights(Link(x, m), Link(m, y))
    BY <1>3, <1>7 DEF Sides, Link
  <2>3. Value(cost, weight, a, (1..k) \cup {m}) =
          IF m \in LowerTriangles(a) /\ Sides(weight, a, m) < Value(cost, weight, a, 1..k)
          THEN Sides(weight, a, m) ELSE Value(cost, weight, a, 1..k)
    BY <1>1, ValueGrows
  <2> QED BY <1>2, <1>5, <1>6, <1>7, <2>1, <2>2, <2>3 DEF Partial
<1>8. CASE ~(<<x, m>> \in arcs /\ <<m, y>> \in arcs)
  <2>1. AddWeights(Link(x, m), Link(m, y)) = Infinity
    BY <1>8 DEF Link, AddWeights
  <2>2. ~(Infinity < old)
    BY WeightConstants DEF Weights
  <2>3. Value(cost, weight, a, (1..k) \cup {m}) = Value(cost, weight, a, 1..k)
    <3>1. Value(cost, weight, a, (1..k) \cup {m}) =
            IF m \in LowerTriangles(a) /\ Sides(weight, a, m) < Value(cost, weight, a, 1..k)
            THEN Sides(weight, a, m) ELSE Value(cost, weight, a, 1..k)
      BY <1>1, ValueGrows
    <3> QED BY <1>6, <1>8, <3>1
  <2>4. Partial(x, y, m) = Partial(x, y, k)
    BY <1>2, <1>5, <2>3 DEF Partial
  <2> QED BY <1>4, <2>1, <2>2, <2>4
<1> QED BY <1>7, <1>8

\* By induction on the middles counted: partial weights are cheapest walks
\* through them.
LEMMA PartialsAreShortest ==
  ASSUME Customized, NEW dist, IsShortest(dist, Turns)
  PROVE  \A k \in Nat : \A x \in States, y \in States :
           x # y /\ k < x /\ k < y => Saturated(dist[<<1..k, x, y>>]) = Partial(x, y, k)
<1> DEFINE T == {k \in Nat : \A x \in States, y \in States :
                   x # y /\ k < x /\ k < y => Saturated(dist[<<1..k, x, y>>]) = Partial(x, y, k)}
<1>1. Metric(dist, Turns) /\ \A inner \in SUBSET States, x \in States, z \in States : Fit(dist[<<inner, x, z>>], N)
  BY DEF IsShortest
<1>2. 0 \in T
  <2>1. SUFFICES ASSUME NEW x \in States, NEW y \in States, x # y
                 PROVE  Saturated(dist[<<1..0, x, y>>]) = Partial(x, y, 0)
    OBVIOUS
  <2>2. 1..0 = {}
    OBVIOUS
  <2>3. dist[<<{}, x, y>>] = Turns[<<x, y>>]
    BY <1>1 DEF Metric
  <2>4. Partial(x, y, 0) = Turns[<<x, y>>] /\ Partial(x, y, 0) \in Weights
    BY <2>1, PartialIs
  <2>5. Weights \subseteq Lengths
    BY WeightConstants DEF Weights, Lengths
  <2>6. Saturated(Turns[<<x, y>>]) = Turns[<<x, y>>]
    BY <2>4, <2>5, SaturatedIs
  <2> QED BY <2>2, <2>3, <2>4, <2>6
<1>3. ASSUME NEW k \in Nat, k \in T PROVE k + 1 \in T
  <2>1. SUFFICES ASSUME NEW x \in States, NEW y \in States, x # y, k + 1 < x, k + 1 < y
                 PROVE  Saturated(dist[<<1..(k + 1), x, y>>]) = Partial(x, y, k + 1)
    OBVIOUS
  <2>2. PICK m \in States : m = k + 1
    BY <2>1, Ranks
  <2>3. /\ m < x /\ m < y /\ k < x /\ k < y /\ k < m /\ m # x /\ m # y
        /\ 1..k \in SUBSET States /\ k + 1 = m
    BY <2>1, <2>2, Ranks
  <2>4. PICK with \in Lengths, without \in Lengths, p \in Lengths, q \in Lengths :
          /\ with = dist[<<1..m, x, y>>] /\ without = dist[<<1..k, x, y>>]
          /\ p = dist[<<1..k, x, m>>] /\ q = dist[<<1..k, m, y>>]
          /\ Fit(p, N) /\ Fit(q, N)
    <3>1. dist[<<1..m, x, y>>] \in Lengths /\ dist[<<1..k, x, y>>] \in Lengths
      BY <1>1, <2>3, OneMore
    <3>2. Fit(dist[<<1..k, x, m>>], N) /\ Fit(dist[<<1..k, m, y>>], N)
      BY <1>1, <2>3
    <3> QED BY <3>1, <3>2 DEF Fit
  <2>5. with <= without /\ with <= Total(p, q) /\ with \in {without, Total(p, q)} /\ Total(p, q) \in Lengths
    BY <1>1, <2>3, <2>4, OneMore
  <2>6. Saturated(without) = Partial(x, y, k) /\ Saturated(p) = Link(x, m) /\ Saturated(q) = Link(m, y)
    <3>1. Saturated(without) = Partial(x, y, k)
      BY <1>3, <2>1, <2>3, <2>4
    <3>2. Saturated(p) = Partial(x, m, k)
      BY <1>3, <2>3, <2>4
    <3>3. Saturated(q) = Partial(m, y, k)
      BY <1>3, <2>3, <2>4
    <3>4. Partial(x, m, k) = Link(x, m) /\ Partial(m, y, k) = Link(m, y)
      BY <2>3, PartialIs
    <3> QED BY <3>1, <3>2, <3>3, <3>4
  <2>7. Saturated(Total(p, q)) = AddWeights(Link(x, m), Link(m, y))
    BY <2>4, <2>6, SaturatedAdds
  <2>8. PICK over \in Lengths : over = Total(p, q)
    BY <2>5
  <2>9. PICK so \in Nat, sw \in Nat, s \in Nat :
          so = Saturated(over) /\ sw = Saturated(without) /\ s = Saturated(with)
    BY SaturatedIs, WeightConstants
  <2>10. s <= so /\ s <= sw /\ s \in {so, sw}
    BY <2>5, <2>8, <2>9, SaturatedIs
  <2>11. s = IF so < sw THEN so ELSE sw
    BY <2>10
  <2>12. Partial(x, y, m) = IF so < sw THEN so ELSE sw
    BY <2>1, <2>3, <2>6, <2>7, <2>8, <2>9, PartialGrows
  <2> QED BY <2>2, <2>4, <2>9, <2>11, <2>12
<1>4. Nat \subseteq T
  <2> HIDE DEF T
  <2> QED BY <1>2, <1>3, StepByStep
<1> QED BY <1>4

\* Between two states the lowest of which is m + 1.
LEMMA LinksAreShortest ==
  ASSUME Customized, NEW dist, IsShortest(dist, Turns),
         NEW x \in States, NEW y \in States, NEW k \in Nat, (k + 1 = x /\ x < y) \/ (k + 1 = y /\ y < x)
  PROVE  Saturated(dist[<<1..k, x, y>>]) = Link(x, y)
<1>1. x # y /\ k < x /\ k < y
  BY Ranks
<1>2. Saturated(dist[<<1..k, x, y>>]) = Partial(x, y, k)
  BY <1>1, PartialsAreShortest
<1>3. Partial(x, y, k) = Link(x, y)
  BY <1>1, PartialIs
<1> QED BY <1>2, <1>3

\* The graph of the reference is the graph of the turns.
LEMMA BaseIs == Base = Turns
BY TabulatedIs DEF Base, Turns

\* Every turn has a weight.
LEMMA TurnsFit == ASSUME Customized PROVE Turns \in [Pairs -> Weights]
<1>1. \A a \in Pairs : BaseWeight(cost, a) \in Weights
  BY BaseFits DEF Customized
<1> QED BY <1>1 DEF Turns

\* Every arc weighs what the cheapest walk through lower ranks does.
LEMMA CustomizedIsShortest ==
  ASSUME Customized
  PROVE  \A a \in arcs : LET c == CheapestFrom(States, Base, 1..(Lower(a) - 1), a[1])[a[2]]
                         IN  weight[a] = IF c = Infinity THEN Infinity ELSE Least({c, Overflow})
<1>1. PICK dist : IsShortest(dist, Turns)
  BY TurnsFit, ShortestExists
<1>2. ASSUME NEW a \in arcs
      PROVE  LET c == CheapestFrom(States, Base, 1..(Lower(a) - 1), a[1])[a[2]]
             IN  weight[a] = IF c = Infinity THEN Infinity ELSE Least({c, Overflow})
  <2>1. a \in Loopless
    BY DEF Customized
  <2>2. /\ a[1] \in States /\ a[2] \in States /\ a[1] # a[2] /\ a = <<a[1], a[2]>>
        /\ Lower(a) \in States /\ Lower(a) = IF a[1] < a[2] THEN a[1] ELSE a[2]
    BY <2>1, LowerIs
  <2>3. PICK k \in Nat : k + 1 = Lower(a) /\ k = Lower(a) - 1
    BY <2>2, Ranks
  <2>4. 1..k \in SUBSET States /\ ((k + 1 = a[1] /\ a[1] < a[2]) \/ (k + 1 = a[2] /\ a[2] < a[1]))
    BY <2>2, <2>3, Ranks
  <2>5. PICK d \in Lengths : d = dist[<<1..k, a[1], a[2]>>]
    BY <1>1, <2>2, <2>4 DEF IsShortest, Metric
  <2>6. CheapestFrom(States, Base, 1..k, a[1])[a[2]] = d
    BY <1>1, <2>2, <2>4, <2>5, BaseIs DEF IsShortest
  <2>7. Saturated(d) = Link(a[1], a[2])
    BY <1>1, <2>2, <2>4, <2>5, LinksAreShortest
  <2>8. Link(a[1], a[2]) = weight[a]
    BY <2>2 DEF Link
  <2>9. Saturated(d) = IF d = Infinity THEN Infinity ELSE Least({d, Overflow})
    BY SaturatedIs
  <2> QED BY <2>3, <2>6, <2>7, <2>8, <2>9
<1> QED BY <1>2

\* The weights that are served are those of cheapest walks.
LEMMA WeightsHold == ASSUME IInv PROVE WeightsAreShortest
BY InvariantCustomizes, CustomizedIsShortest DEF WeightsAreShortest

-----------------------------------------------------------------------------
(* Queries.  The two search spaces hold the cheapest walks through ranks   *)
(* below the state that is reached.                                        *)

\* Where no weight is cut off, the arcs have the lengths themselves.
LEMMA LinksAreExact ==
  ASSUME Customized, \A a \in arcs : weight[a] # Overflow, NEW dist, IsShortest(dist, Turns),
         NEW x \in States, NEW y \in States, NEW k \in Nat, (k + 1 = x /\ x < y) \/ (k + 1 = y /\ y < x)
  PROVE  dist[<<1..k, x, y>>] = Link(x, y)
<1>1. Saturated(dist[<<1..k, x, y>>]) = Link(x, y)
  BY LinksAreShortest
<1>2. Link(x, y) # Overflow
  BY WeightConstants DEF Link
<1>3. 1..k \in SUBSET States
  BY Ranks
<1>4. dist[<<1..k, x, y>>] \in Lengths
  BY <1>3 DEF IsShortest, Metric
<1> QED BY <1>1, <1>2, <1>4, SaturatedIs

\* Sums of the model.
LEMMA PlusCommutes ==
  ASSUME NEW l \in Nat, NEW r \in Nat
  PROVE  /\ Plus(l, r) = Plus(r, l) /\ Plus(l, r) \in Nat
         /\ l = Infinity \/ r = Infinity => Plus(l, r) = Infinity
         /\ Plus(0, r) = r
BY WeightConstants DEF Plus

Cheaper(l, r) == IF l <= r THEN l ELSE r

Seed(s) == [y \in States |-> IF y = s THEN 0 ELSE Infinity]

\* A search that settles the states in the order of their rank from s.
Settles(f, s, link) ==
  /\ f \in [0..N -> [States -> Lengths]] /\ f[0] = Seed(s)
  /\ \A v \in 1..N : \A y \in States :
       f[v][y] = IF v < y THEN Cheaper(f[v - 1][y], Plus(f[v - 1][v], link[<<v, y>>])) ELSE f[v - 1][y]

\* near[k, y]: the cheapest walks between s and y through the ranks up to k.
IsNear(near, s, link) ==
  /\ \A k \in 0..N, y \in States : Fit(near[<<k, y>>], N)
  /\ \A v \in States, y \in States : v < y => Fit(link[<<v, y>>], N)
  /\ \A y \in States : s < y => near[<<s, y>>] = link[<<s, y>>]
  /\ \A k \in Nat, v \in States, y \in States :
       k + 1 = v /\ s < v /\ v < y =>
         near[<<v, y>>] = Cheaper(near[<<k, y>>], Total(near[<<k, v>>], link[<<v, y>>]))

\* What such a search has found when it ends.
Found(space, near, s) ==
  \A y \in States : space[y] = IF y = s THEN 0 ELSE IF s < y THEN near[<<y - 1, y>>] ELSE Infinity

\* By induction on the ranks settled.
LEMMA SettledIsNear ==
  ASSUME NEW s \in States, NEW link, NEW near, IsNear(near, s, link), NEW f, Settles(f, s, link)
  PROVE  Found(f[N], near, s)
<1> DEFINE Is(v, y) == f[v][y] = IF y = s THEN 0 ELSE IF y < s \/ v < s THEN Infinity
                                 ELSE IF v < y THEN near[<<v, y>>] ELSE near[<<y - 1, y>>]
           T == {v \in Nat : v <= N => \A y \in States : Is(v, y)}
<1>0. N \in Nat /\ States = 1..N /\ s \in Nat /\ 0 < s
  BY Ranks
<1>1. 0 \in T
  <2>1. \A y \in States : f[0][y] = IF y = s THEN 0 ELSE Infinity
    BY DEF Settles, Seed
  <2> QED BY <1>0, <2>1
<1>2. ASSUME NEW v \in Nat, v \in T PROVE v + 1 \in T
  <2>1. SUFFICES ASSUME v + 1 <= N, NEW y \in States PROVE Is(v + 1, y)
    OBVIOUS
  <2>2. PICK m \in States : m = v + 1
    BY <1>0, <2>1
  <2>3. m \in 1..N /\ v \in 0..N /\ m - 1 = v /\ v <= N /\ v < m /\ m \in Nat /\ y \in Nat /\ v + 1 = m
    BY <1>0, <2>1, <2>2
  <2>4. \A z \in States : Is(v, z)
    BY <1>2, <2>3
  <2>5. f[m][y] = IF m < y THEN Cheaper(f[v][y], Plus(f[v][m], link[<<m, y>>])) ELSE f[v][y]
    BY <2>3 DEF Settles
  <2>6. f[v][y] \in Nat /\ f[v][y] <= Infinity /\ f[v][m] \in Nat /\ f[v][m] <= Infinity
    <3>1. f[v] \in [States -> Lengths]
      BY <2>3 DEF Settles
    <3> QED BY <3>1, WeightConstants DEF Lengths
  <2>7. CASE y <= m
    <3>1. f[m][y] = f[v][y]
      BY <2>3, <2>5, <2>7
    <3>2. Is(v, y)
      BY <2>4
    <3>3. y = m => y - 1 = v
      BY <2>3
    <3>4. Is(m, y)
      BY <1>0, <2>3, <2>7, <3>1, <3>2, <3>3
    <3> QED BY <2>2, <3>4
  <2>8. CASE m < y
    <3>1. PICK l \in Nat : l = link[<<m, y>>] /\ Fit(l, N)
      BY <2>8, WeightConstants DEF IsNear, Fit, Lengths
    <3>2. PICK p \in Nat : p = Plus(f[v][m], l)
      BY <2>6, <3>1, PlusCommutes
    <3>3. f[m][y] = Cheaper(f[v][y], p)
      BY <2>5, <2>8, <3>1, <3>2
    <3>4. CASE m < s
      <4>0. Is(v, m)
        BY <2>4
      <4>1. f[v][m] = Infinity
        BY <1>0, <2>3, <3>4, <4>0
      <4>2. p = Infinity
        BY <2>6, <3>1, <3>2, <4>1, PlusCommutes
      <4>3. f[m][y] = f[v][y]
        BY <2>6, <3>3, <4>2 DEF Cheaper
      <4>4. v < s /\ Is(v, y)
        BY <1>0, <2>3, <2>4, <3>4
      <4>5. Is(m, y)
        BY <3>4, <4>3, <4>4
      <4> QED BY <2>2, <4>5
    <3>5. CASE m = s
      <4>0. Is(v, m) /\ Is(v, y)
        BY <2>4
      <4>1. f[v][m] = 0 /\ f[v][y] = Infinity
        BY <1>0, <2>3, <2>8, <3>5, <4>0
      <4>2. p = l /\ l <= Infinity
        <5>1. Plus(0, l) = l
          BY <3>1, PlusCommutes
        <5>2. l <= Infinity
          BY <3>1, WeightConstants DEF Fit, Lengths
        <5> QED BY <3>2, <4>1, <5>1, <5>2
      <4>3. f[m][y] = l
        BY <3>1, <3>3, <4>1, <4>2, WeightConstants DEF Cheaper
      <4>4. near[<<m, y>>] = l
        BY <2>8, <3>1, <3>5 DEF IsNear
      <4>5. Is(m, y)
        BY <1>0, <2>3, <2>8, <3>5, <4>3, <4>4
      <4> QED BY <2>2, <4>5
    <3>6. CASE s < m
      <4>0. Is(v, m) /\ Is(v, y) /\ v < y /\ s <= v
        BY <1>0, <2>3, <2>4, <2>8, <3>6
      <4>1. f[v][m] = near[<<v, m>>] /\ f[v][y] = near[<<v, y>>]
        BY <1>0, <2>3, <2>8, <3>6, <4>0
      <4>2. Fit(near[<<v, m>>], N)
        BY <2>3 DEF IsNear
      <4>3. p = Total(near[<<v, m>>], l)
        BY <3>1, <3>2, <4>1, <4>2, TotalIsPlus
      <4>4. near[<<m, y>>] = Cheaper(near[<<v, y>>], Total(near[<<v, m>>], link[<<m, y>>]))
        BY <2>3, <2>8, <3>6 DEF IsNear
      <4>5. f[m][y] = near[<<m, y>>]
        BY <3>1, <3>3, <4>1, <4>3, <4>4
      <4>6. Is(m, y)
        BY <1>0, <2>3, <2>8, <3>6, <4>5
      <4> QED BY <2>2, <4>6
    <3> QED BY <1>0, <2>3, <3>4, <3>5, <3>6
  <2> QED BY <2>3, <2>7, <2>8
<1>3. N \in T
  <2> HIDE DEF T
  <2> QED BY <1>0, <1>1, <1>2, StepByStep
<1>4. \A y \in States : Is(N, y)
  <2>1. N <= N => \A y \in States : Is(N, y)
    BY <1>3
  <2>2. N <= N
    BY <1>0
  <2> QED BY <2>1, <2>2
<1>5. ASSUME NEW y \in States
      PROVE  f[N][y] = IF y = s THEN 0 ELSE IF s < y THEN near[<<y - 1, y>>] ELSE Infinity
  <2>1. ~(N < y) /\ ~(N < s) /\ (y = s \/ y < s \/ s < y) /\ y \in Nat
    BY <1>0
  <2>2. Is(N, y)
    BY <1>4
  <2> QED BY <1>0, <2>1, <2>2
<1> QED BY <1>5 DEF Found

\* A function from 0 on may be defined by its steps.
Stepped(f, D, d, next) ==
  /\ f \in [0..N -> D] /\ f[0] = d
  /\ \A v \in 1..N : f[v - 1] \in D /\ f[v] = next[<<v, f[v - 1]>>]
  /\ f = [v \in 0..N |-> f[v]]

\* Every such next defines one.
LEMMA StepsDefine ==
  ASSUME NEW D, NEW d \in D, NEW next \in [(1..N) \X D -> D]
  PROVE  \E f : Stepped(f, D, d, next)
<1>1. PICK f : Follows(f, N, D, d, next)
  <2>1. N \in Nat
    BY Ranks
  <2> QED BY <2>1, Stepwise
<1>2. f \in [0..N -> D] /\ f[0] = d /\ \A v \in 1..N : f[v] = next[<<v, f[v - 1]>>]
  BY <1>1, Zenon DEF Follows
<1>3. \A v \in 1..N : f[v - 1] \in D
  <2>1. \A v \in 1..N : v - 1 \in 0..N
    BY Ranks
  <2> QED BY <1>2, <2>1
<1>4. f = [v \in 0..N |-> f[v]]
  BY <1>2
<1>5. Stepped(f, D, d, next)
  BY <1>2, <1>3, <1>4 DEF Stepped
<1> QED BY <1>5

ForwardStep(dist, v) ==
  Tabulated([y \in States |-> IF v < y /\ <<v, y>> \in arcs
                              THEN Least({dist[y], Plus(dist[v], weight[<<v, y>>])}) ELSE dist[y]])

IsForward(f, s) ==
  f = [v \in 0..N |-> IF v = 0 THEN [y \in States |-> IF y = s THEN 0 ELSE Infinity] ELSE ForwardStep(f[v - 1], v)]

BackwardStep(dist, v) ==
  Tabulated([x \in States |-> IF v < x /\ <<x, v>> \in arcs
                              THEN Least({dist[x], Plus(weight[<<x, v>>], dist[v])}) ELSE dist[x]])

IsBackward(f, t) ==
  f = [v \in 0..N |-> IF v = 0 THEN [x \in States |-> IF x = t THEN 0 ELSE Infinity] ELSE BackwardStep(f[v - 1], v)]

Links     == [a \in Pairs |-> Link(a[1], a[2])]
Backlinks == [a \in Pairs |-> Link(a[2], a[1])]

\* The cheaper of two lengths is a length.
LEMMA CheaperIs ==
  ASSUME NEW l \in Lengths, NEW r \in Nat
  PROVE  /\ Cheaper(l, r) \in Lengths /\ Least({l, r}) = Cheaper(l, r)
         /\ Cheaper(l, Infinity) = l
<1>1. l \in Nat /\ l <= Infinity
  BY WeightConstants DEF Lengths
<1>2. Least({l, r}) = IF l <= r THEN l ELSE r
  BY <1>1, LeastOfTwo
<1> QED BY <1>1, <1>2, WeightConstants DEF Cheaper, Lengths

\* An arc that is tried or missing.
IsCheaper(cheaper, l, d, x, y) ==
  /\ cheaper = Cheaper(l, Plus(d, Link(x, y))) /\ cheaper \in Lengths
  /\ <<x, y>> \in arcs => /\ Least({l, Plus(d, weight[<<x, y>>])}) = cheaper
                          /\ Least({l, Plus(weight[<<x, y>>], d)}) = cheaper
  /\ <<x, y>> \notin arcs => l = cheaper

\* It is what the searches compute.
LEMMA CheaperOver ==
  ASSUME weight \in [arcs -> Weights], NEW l \in Lengths, NEW d \in Lengths, NEW x \in States, NEW y \in States
  PROVE  \E cheaper : IsCheaper(cheaper, l, d, x, y)
<1>0. PICK cheaper : cheaper = Cheaper(l, Plus(d, Link(x, y)))
  OBVIOUS
<1>1. d \in Nat
  BY WeightConstants DEF Lengths
<1>2. CASE <<x, y>> \in arcs
  <2>1. PICK w \in Nat : w = weight[<<x, y>>]
    BY <1>2, WeightConstants
  <2>2. Link(x, y) = w
    BY <1>2, <2>1 DEF Link
  <2>3. Plus(d, w) \in Nat /\ Plus(w, d) = Plus(d, w)
    BY <1>1, PlusCommutes
  <2>4. Least({l, Plus(d, w)}) = Cheaper(l, Plus(d, w)) /\ Cheaper(l, Plus(d, w)) \in Lengths
    BY <2>3, CheaperIs
  <2> QED BY <1>0, <1>2, <2>1, <2>2, <2>3, <2>4 DEF IsCheaper
<1>3. CASE <<x, y>> \notin arcs
  <2>1. Link(x, y) = Infinity
    BY <1>3 DEF Link
  <2>2. Plus(d, Infinity) = Infinity
    BY <1>1, PlusCommutes, WeightConstants
  <2>3. Cheaper(l, Infinity) = l
    BY CheaperIs, WeightConstants
  <2> QED BY <1>0, <1>3, <2>1, <2>2, <2>3 DEF IsCheaper
<1> QED BY <1>2, <1>3

\* Settling v climbs the upward arcs from v.
LEMMA ForwardStepIs ==
  ASSUME weight \in [arcs -> Weights], NEW dist \in [States -> Lengths], NEW v \in 1..N
  PROVE  /\ ForwardStep(dist, v) \in [States -> Lengths]
         /\ \A y \in States : ForwardStep(dist, v)[y] =
              IF v < y THEN Cheaper(dist[y], Plus(dist[v], Links[<<v, y>>])) ELSE dist[y]
<1> DEFINE step == [y \in States |-> IF v < y /\ <<v, y>> \in arcs
                                     THEN Least({dist[y], Plus(dist[v], weight[<<v, y>>])}) ELSE dist[y]]
<1>1. ForwardStep(dist, v) = step
  <2>1. \A f : Tabulated(f) = f
    BY TabulatedIs
  <2> QED BY <2>1 DEF ForwardStep
<1>2. ASSUME NEW y \in States
      PROVE  /\ step[y] \in Lengths
             /\ step[y] = IF v < y THEN Cheaper(dist[y], Plus(dist[v], Links[<<v, y>>])) ELSE dist[y]
  <2>1. v \in States /\ dist[y] \in Lengths /\ dist[v] \in Lengths
    BY Ranks
  <2>2. Links[<<v, y>>] = Link(v, y)
    BY <2>1 DEF Links, Pairs
  <2>3. PICK cheaper : IsCheaper(cheaper, dist[y], dist[v], v, y)
    BY <2>1, CheaperOver
  <2> QED BY <2>1, <2>2, <2>3 DEF IsCheaper
<1>3. step = [y \in States |-> step[y]]
  OBVIOUS
<1> HIDE DEF step
<1> QED BY <1>1, <1>2, <1>3

\* Settling v climbs the downward arcs to v.
LEMMA BackwardStepIs ==
  ASSUME weight \in [arcs -> Weights], NEW dist \in [States -> Lengths], NEW v \in 1..N
  PROVE  /\ BackwardStep(dist, v) \in [States -> Lengths]
         /\ \A x \in States : BackwardStep(dist, v)[x] =
              IF v < x THEN Cheaper(dist[x], Plus(dist[v], Backlinks[<<v, x>>])) ELSE dist[x]
<1> DEFINE step == [x \in States |-> IF v < x /\ <<x, v>> \in arcs
                                     THEN Least({dist[x], Plus(weight[<<x, v>>], dist[v])}) ELSE dist[x]]
<1>1. BackwardStep(dist, v) = step
  <2>1. \A f : Tabulated(f) = f
    BY TabulatedIs
  <2> QED BY <2>1 DEF BackwardStep
<1>2. ASSUME NEW x \in States
      PROVE  /\ step[x] \in Lengths
             /\ step[x] = IF v < x THEN Cheaper(dist[x], Plus(dist[v], Backlinks[<<v, x>>])) ELSE dist[x]
  <2>1. v \in States /\ dist[x] \in Lengths /\ dist[v] \in Lengths
    BY Ranks
  <2>2. Backlinks[<<v, x>>] = Link(x, v)
    BY <2>1 DEF Backlinks, Pairs
  <2>3. PICK cheaper : IsCheaper(cheaper, dist[x], dist[v], x, v)
    BY <2>1, CheaperOver
  <2> QED BY <2>1, <2>2, <2>3 DEF IsCheaper
<1>3. step = [x \in States |-> step[x]]
  OBVIOUS
<1> HIDE DEF step
<1> QED BY <1>1, <1>2, <1>3

\* Only the seed is reached at first.
LEMMA SeedIs == ASSUME NEW s \in States PROVE Seed(s) \in [States -> Lengths]
BY WeightConstants DEF Seed, Lengths

\* The forward space is such a search.
LEMMA ForwardSettles ==
  ASSUME weight \in [arcs -> Weights], NEW s \in States
  PROVE  \E f : Settles(f, s, Links) /\ ForwardSpace(s) = f[N]
<1> DEFINE D == [States -> Lengths]
           next == [p \in (1..N) \X D |-> ForwardStep(p[2], p[1])]
           space == CHOOSE f : IsForward(f, s)
<1>1. Seed(s) \in D /\ next \in [(1..N) \X D -> D]
  <2>1. \A p \in (1..N) \X D : p[1] \in 1..N /\ p[2] \in D
    OBVIOUS
  <2>2. \A p \in (1..N) \X D : ForwardStep(p[2], p[1]) \in D
    BY <2>1, ForwardStepIs
  <2> QED BY <2>2, SeedIs
<1>2. PICK f : Stepped(f, D, Seed(s), next)
  <2> HIDE DEF D, next
  <2> QED BY <1>1, StepsDefine
<1>3. \A v \in 1..N : f[v] = ForwardStep(f[v - 1], v)
  BY <1>2 DEF Stepped
<1>4. \A v \in 0..N : v # 0 => v \in 1..N
  BY Ranks
<1>5. IsForward(f, s)
  <2>1. \A v \in 0..N : f[v] = IF v = 0 THEN Seed(s) ELSE ForwardStep(f[v - 1], v)
    BY <1>2, <1>3, <1>4 DEF Stepped
  <2>2. f = [v \in 0..N |-> f[v]]
    BY <1>2, Zenon DEF Stepped
  <2> HIDE DEF D, next
  <2> QED BY <2>1, <2>2, Zenon DEF IsForward, Seed
<1>6. IsForward(space, s)
  BY <1>5, Zenon
<1>7. ForwardSpace(s) = space[N]
  BY Zenon DEF ForwardSpace, IsForward, ForwardStep
<1> HIDE DEF space, next
<1>8. space = [v \in 0..N |-> IF v = 0 THEN Seed(s) ELSE ForwardStep(space[v - 1], v)]
  BY <1>6, Zenon DEF IsForward, Seed
<1>9. space[0] = Seed(s) /\ \A v \in 1..N : space[v] = ForwardStep(space[v - 1], v)
  <2>1. \A v \in 0..N : space[v] = IF v = 0 THEN Seed(s) ELSE ForwardStep(space[v - 1], v)
    BY <1>8
  <2>2. 0 \in 0..N /\ \A v \in 1..N : v # 0 /\ v \in 0..N
    BY Ranks
  <2> QED BY <2>1, <2>2
<1> DEFINE T == {v \in Nat : v <= N => space[v] \in D}
<1>10. 0 \in T
  BY <1>1, <1>9
<1>11. ASSUME NEW v \in Nat, v \in T PROVE v + 1 \in T
  <2>1. SUFFICES ASSUME v + 1 <= N PROVE space[v + 1] \in D
    OBVIOUS
  <2>2. v <= N /\ v + 1 \in 1..N /\ (v + 1) - 1 = v
    BY <2>1, Ranks
  <2>3. space[v] \in D
    BY <1>11, <2>2
  <2>4. space[v + 1] = ForwardStep(space[v], v + 1)
    BY <1>9, <2>2
  <2> QED BY <2>2, <2>3, <2>4, ForwardStepIs
<1>12. \A v \in 0..N : space[v] \in D
  <2>1. Nat \subseteq T
    <3> HIDE DEF T
    <3> QED BY <1>10, <1>11, StepByStep
  <2>2. \A v \in 0..N : v \in Nat /\ v <= N
    BY Ranks
  <2> QED BY <2>1, <2>2
<1>13. Settles(space, s, Links)
  <2>1. space \in [0..N -> D]
    BY <1>8, <1>12
  <2>2. \A v \in 1..N : v - 1 \in 0..N
    BY Ranks
  <2>3. \A v \in 1..N : \A y \in States : ForwardStep(space[v - 1], v)[y] =
          IF v < y THEN Cheaper(space[v - 1][y], Plus(space[v - 1][v], Links[<<v, y>>])) ELSE space[v - 1][y]
    BY <1>12, <2>2, ForwardStepIs
  <2> QED BY <1>9, <2>1, <2>3 DEF Settles
<1> QED BY <1>7, <1>13

\* The backward space is such a search.
LEMMA BackwardSettles ==
  ASSUME weight \in [arcs -> Weights], NEW t \in States
  PROVE  \E f : Settles(f, t, Backlinks) /\ BackwardSpace(t) = f[N]
<1> DEFINE D == [States -> Lengths]
           next == [p \in (1..N) \X D |-> BackwardStep(p[2], p[1])]
           space == CHOOSE f : IsBackward(f, t)
<1>1. Seed(t) \in D /\ next \in [(1..N) \X D -> D]
  <2>1. \A p \in (1..N) \X D : p[1] \in 1..N /\ p[2] \in D
    OBVIOUS
  <2>2. \A p \in (1..N) \X D : BackwardStep(p[2], p[1]) \in D
    BY <2>1, BackwardStepIs
  <2> QED BY <2>2, SeedIs
<1>2. PICK f : Stepped(f, D, Seed(t), next)
  <2> HIDE DEF D, next
  <2> QED BY <1>1, StepsDefine
<1>3. \A v \in 1..N : f[v] = BackwardStep(f[v - 1], v)
  BY <1>2 DEF Stepped
<1>4. \A v \in 0..N : v # 0 => v \in 1..N
  BY Ranks
<1>5. IsBackward(f, t)
  <2>1. \A v \in 0..N : f[v] = IF v = 0 THEN Seed(t) ELSE BackwardStep(f[v - 1], v)
    BY <1>2, <1>3, <1>4 DEF Stepped
  <2>2. f = [v \in 0..N |-> f[v]]
    BY <1>2, Zenon DEF Stepped
  <2> HIDE DEF D, next
  <2> QED BY <2>1, <2>2, Zenon DEF IsBackward, Seed
<1>6. IsBackward(space, t)
  BY <1>5, Zenon
<1>7. BackwardSpace(t) = space[N]
  BY Zenon DEF BackwardSpace, IsBackward, BackwardStep
<1> HIDE DEF space, next
<1>8. space = [v \in 0..N |-> IF v = 0 THEN Seed(t) ELSE BackwardStep(space[v - 1], v)]
  BY <1>6, Zenon DEF IsBackward, Seed
<1>9. space[0] = Seed(t) /\ \A v \in 1..N : space[v] = BackwardStep(space[v - 1], v)
  <2>1. \A v \in 0..N : space[v] = IF v = 0 THEN Seed(t) ELSE BackwardStep(space[v - 1], v)
    BY <1>8
  <2>2. 0 \in 0..N /\ \A v \in 1..N : v # 0 /\ v \in 0..N
    BY Ranks
  <2> QED BY <2>1, <2>2
<1> DEFINE T == {v \in Nat : v <= N => space[v] \in D}
<1>10. 0 \in T
  BY <1>1, <1>9
<1>11. ASSUME NEW v \in Nat, v \in T PROVE v + 1 \in T
  <2>1. SUFFICES ASSUME v + 1 <= N PROVE space[v + 1] \in D
    OBVIOUS
  <2>2. v <= N /\ v + 1 \in 1..N /\ (v + 1) - 1 = v
    BY <2>1, Ranks
  <2>3. space[v] \in D
    BY <1>11, <2>2
  <2>4. space[v + 1] = BackwardStep(space[v], v + 1)
    BY <1>9, <2>2
  <2> QED BY <2>2, <2>3, <2>4, BackwardStepIs
<1>12. \A v \in 0..N : space[v] \in D
  <2>1. Nat \subseteq T
    <3> HIDE DEF T
    <3> QED BY <1>10, <1>11, StepByStep
  <2>2. \A v \in 0..N : v \in Nat /\ v <= N
    BY Ranks
  <2> QED BY <2>1, <2>2
<1>13. Settles(space, t, Backlinks)
  <2>1. space \in [0..N -> D]
    BY <1>8, <1>12
  <2>2. \A v \in 1..N : v - 1 \in 0..N
    BY Ranks
  <2>3. \A v \in 1..N : \A x \in States : BackwardStep(space[v - 1], v)[x] =
          IF v < x THEN Cheaper(space[v - 1][x], Plus(space[v - 1][v], Backlinks[<<v, x>>])) ELSE space[v - 1][x]
    BY <1>12, <2>2, BackwardStepIs
  <2> QED BY <1>9, <2>1, <2>3 DEF Settles
<1> QED BY <1>7, <1>13

\* The hierarchy answers exactly: no weight of it is cut off.
Exact(dist) ==
  /\ Customized /\ \A a \in arcs : weight[a] # Overflow
  /\ IsShortest(dist, Turns)

\* The distances that an exact hierarchy has as arcs.
LEMMA ShortestIs ==
  ASSUME NEW dist, Exact(dist), NEW k \in 0..N, NEW x \in States, NEW y \in States
  PROVE  /\ Fit(dist[<<1..k, x, y>>], N) /\ dist[<<1..k, x, y>>] \in Lengths
         /\ (k + 1 = x /\ x < y) \/ (k + 1 = y /\ y < x) => dist[<<1..k, x, y>>] = Link(x, y)
<1>1. 1..k \in SUBSET States /\ k \in Nat
  BY Ranks
<1>2. Fit(dist[<<1..k, x, y>>], N)
  BY <1>1 DEF Exact, IsShortest
<1>3. (k + 1 = x /\ x < y) \/ (k + 1 = y /\ y < x) => dist[<<1..k, x, y>>] = Link(x, y)
  BY <1>1, LinksAreExact DEF Exact
<1> QED BY <1>2, <1>3 DEF Fit

\* The next state in the order is passed or not.
Passes(dist, k, m, x, y) ==
  /\ dist[<<1..m, x, y>>] = Cheaper(dist[<<1..k, x, y>>], Total(dist[<<1..k, x, m>>], dist[<<1..k, m, y>>]))
  /\ m = x \/ m = y => dist[<<1..m, x, y>>] = dist[<<1..k, x, y>>]

\* The cheaper of both.
LEMMA PassesOrNot ==
  ASSUME NEW dist, Exact(dist), NEW k \in Nat, NEW m \in States, k + 1 = m, NEW x \in States, NEW y \in States
  PROVE  Passes(dist, k, m, x, y)
<1>1. Metric(dist, Turns)
  BY DEF Exact, IsShortest
<1>2. PICK with, without, over : /\ with = dist[<<1..m, x, y>>] /\ without = dist[<<1..k, x, y>>]
                                 /\ over = Total(dist[<<1..k, x, m>>], dist[<<1..k, m, y>>])
  OBVIOUS
<1>3. /\ with \in Lengths /\ without \in Lengths /\ over \in Lengths
      /\ with <= without /\ with <= over /\ with \in {without, over}
      /\ m \in {x, y} => with = without
  BY <1>1, <1>2, OneMore
<1>4. with = Cheaper(without, over)
  BY <1>3, WeightConstants DEF Cheaper, Lengths
<1> QED BY <1>2, <1>3, <1>4 DEF Passes

\* The forward space holds the cheapest walks from s through lower ranks.
LEMMA ForwardSpaceIs ==
  ASSUME NEW dist, Exact(dist), NEW s \in States
  PROVE  \A y \in States : ForwardSpace(s)[y] =
           IF y = s THEN 0 ELSE IF s < y THEN dist[<<1..(y - 1), s, y>>] ELSE Infinity
<1> DEFINE near == [p \in (0..N) \X States |-> dist[<<1..p[1], s, p[2]>>]]
<1>0. weight \in [arcs -> Weights]
  BY DEF Exact, Customized
<1>1. PICK f : Settles(f, s, Links) /\ ForwardSpace(s) = f[N]
  BY <1>0, ForwardSettles
<1>2. \A k \in 0..N, y \in States : near[<<k, y>>] = dist[<<1..k, s, y>>]
  OBVIOUS
<1> HIDE DEF near
<1>3. \A v \in States, y \in States : Links[<<v, y>>] = Link(v, y)
  BY DEF Links, Pairs
<1>4. ASSUME NEW v \in States, NEW y \in States, v < y, NEW k \in Nat, k + 1 = v
      PROVE  k \in 0..N /\ v \in 0..N /\ dist[<<1..k, v, y>>] = Links[<<v, y>>]
  <2>1. k \in 0..N /\ v \in 0..N
    BY <1>4, Ranks
  <2> QED BY <1>3, <1>4, <2>1, ShortestIs
<1>5. ASSUME NEW k \in 0..N, NEW y \in States PROVE Fit(near[<<k, y>>], N)
  <2>1. Fit(dist[<<1..k, s, y>>], N)
    BY ShortestIs
  <2> QED BY <1>2, <2>1
<1>6. ASSUME NEW v \in States PROVE \E k \in Nat : k + 1 = v
  <2>1. v - 1 \in Nat /\ (v - 1) + 1 = v
    BY Ranks
  <2> QED BY <2>1
<1>7. ASSUME NEW v \in States, NEW y \in States, v < y PROVE Fit(Links[<<v, y>>], N)
  <2>1. PICK k \in Nat : k + 1 = v
    BY <1>6
  <2>2. k \in 0..N /\ dist[<<1..k, v, y>>] = Links[<<v, y>>]
    BY <1>4, <1>7, <2>1
  <2>3. Fit(dist[<<1..k, v, y>>], N)
    BY <2>2, ShortestIs
  <2> QED BY <2>2, <2>3
<1>8. ASSUME NEW y \in States, s < y PROVE near[<<s, y>>] = Links[<<s, y>>]
  <2>1. PICK k \in Nat : k + 1 = s
    BY <1>6
  <2>2. dist[<<1..k, s, y>>] = Links[<<s, y>>] /\ s \in 0..N
    BY <1>4, <1>8, <2>1
  <2>3. Passes(dist, k, s, s, y)
    BY <2>1, PassesOrNot
  <2>4. dist[<<1..s, s, y>>] = dist[<<1..k, s, y>>]
    BY <2>3 DEF Passes
  <2> QED BY <1>2, <2>2, <2>4
<1>9. ASSUME NEW k \in Nat, NEW v \in States, NEW y \in States, k + 1 = v, s < v, v < y
      PROVE  near[<<v, y>>] = Cheaper(near[<<k, y>>], Total(near[<<k, v>>], Links[<<v, y>>]))
  <2>1. k \in 0..N /\ v \in 0..N /\ dist[<<1..k, v, y>>] = Links[<<v, y>>]
    BY <1>4, <1>9
  <2>2. dist[<<1..v, s, y>>] = Cheaper(dist[<<1..k, s, y>>], Total(dist[<<1..k, s, v>>], dist[<<1..k, v, y>>]))
    BY <1>9, PassesOrNot DEF Passes
  <2> QED BY <1>2, <2>1, <2>2
<1>10. IsNear(near, s, Links)
  BY <1>5, <1>7, <1>8, <1>9 DEF IsNear
<1>11. Found(f[N], near, s)
  BY <1>1, <1>10, SettledIsNear
<1>12. \A y \in States : near[<<y - 1, y>>] = dist[<<1..(y - 1), s, y>>]
  <2>1. \A y \in States : y - 1 \in 0..N
    BY Ranks
  <2> QED BY <1>2, <2>1
<1> QED BY <1>1, <1>11, <1>12 DEF Found

\* Sums may be swapped.
LEMMA TotalCommutes == ASSUME NEW l \in Lengths, NEW r \in Lengths PROVE Total(l, r) = Total(r, l)
BY WeightConstants DEF Total, Lengths

\* The backward space holds the cheapest walks to t through lower ranks.
LEMMA BackwardSpaceIs ==
  ASSUME NEW dist, Exact(dist), NEW t \in States
  PROVE  \A x \in States : BackwardSpace(t)[x] =
           IF x = t THEN 0 ELSE IF t < x THEN dist[<<1..(x - 1), x, t>>] ELSE Infinity
<1> DEFINE near == [p \in (0..N) \X States |-> dist[<<1..p[1], p[2], t>>]]
<1>0. weight \in [arcs -> Weights]
  BY DEF Exact, Customized
<1>1. PICK f : Settles(f, t, Backlinks) /\ BackwardSpace(t) = f[N]
  BY <1>0, BackwardSettles
<1>2. \A k \in 0..N, x \in States : near[<<k, x>>] = dist[<<1..k, x, t>>]
  OBVIOUS
<1> HIDE DEF near
<1>3. \A v \in States, x \in States : Backlinks[<<v, x>>] = Link(x, v)
  BY DEF Backlinks, Pairs
<1>4. ASSUME NEW v \in States, NEW x \in States, v < x, NEW k \in Nat, k + 1 = v
      PROVE  k \in 0..N /\ v \in 0..N /\ dist[<<1..k, x, v>>] = Backlinks[<<v, x>>]
  <2>1. k \in 0..N /\ v \in 0..N
    BY <1>4, Ranks
  <2> QED BY <1>3, <1>4, <2>1, ShortestIs
<1>5. ASSUME NEW k \in 0..N, NEW x \in States PROVE Fit(near[<<k, x>>], N)
  <2>1. Fit(dist[<<1..k, x, t>>], N)
    BY ShortestIs
  <2> QED BY <1>2, <2>1
<1>6. ASSUME NEW v \in States PROVE \E k \in Nat : k + 1 = v
  <2>1. v - 1 \in Nat /\ (v - 1) + 1 = v
    BY Ranks
  <2> QED BY <2>1
<1>7. ASSUME NEW v \in States, NEW x \in States, v < x PROVE Fit(Backlinks[<<v, x>>], N)
  <2>1. PICK k \in Nat : k + 1 = v
    BY <1>6
  <2>2. k \in 0..N /\ dist[<<1..k, x, v>>] = Backlinks[<<v, x>>]
    BY <1>4, <1>7, <2>1
  <2>3. Fit(dist[<<1..k, x, v>>], N)
    BY <2>2, ShortestIs
  <2> QED BY <2>2, <2>3
<1>8. ASSUME NEW x \in States, t < x PROVE near[<<t, x>>] = Backlinks[<<t, x>>]
  <2>1. PICK k \in Nat : k + 1 = t
    BY <1>6
  <2>2. dist[<<1..k, x, t>>] = Backlinks[<<t, x>>] /\ t \in 0..N
    BY <1>4, <1>8, <2>1
  <2>3. Passes(dist, k, t, x, t)
    BY <2>1, PassesOrNot
  <2>4. dist[<<1..t, x, t>>] = dist[<<1..k, x, t>>]
    BY <2>3 DEF Passes
  <2> QED BY <1>2, <2>2, <2>4
<1>9. ASSUME NEW k \in Nat, NEW v \in States, NEW x \in States, k + 1 = v, t < v, v < x
      PROVE  near[<<v, x>>] = Cheaper(near[<<k, x>>], Total(near[<<k, v>>], Backlinks[<<v, x>>]))
  <2>1. k \in 0..N /\ v \in 0..N /\ dist[<<1..k, x, v>>] = Backlinks[<<v, x>>]
    BY <1>4, <1>9
  <2>2. dist[<<1..v, x, t>>] = Cheaper(dist[<<1..k, x, t>>], Total(dist[<<1..k, x, v>>], dist[<<1..k, v, t>>]))
    BY <1>9, PassesOrNot DEF Passes
  <2>3. dist[<<1..k, x, v>>] \in Lengths /\ dist[<<1..k, v, t>>] \in Lengths
    BY <2>1, ShortestIs
  <2>4. Total(dist[<<1..k, x, v>>], dist[<<1..k, v, t>>]) = Total(dist[<<1..k, v, t>>], dist[<<1..k, x, v>>])
    BY <2>3, TotalCommutes
  <2> QED BY <1>2, <2>1, <2>2, <2>4
<1>10. IsNear(near, t, Backlinks)
  BY <1>5, <1>7, <1>8, <1>9 DEF IsNear
<1>11. Found(f[N], near, t)
  BY <1>1, <1>10, SettledIsNear
<1>12. \A x \in States : near[<<x - 1, x>>] = dist[<<1..(x - 1), x, t>>]
  <2>1. \A x \in States : x - 1 \in 0..N
    BY Ranks
  <2> QED BY <1>2, <2>1
<1> QED BY <1>1, <1>11, <1>12 DEF Found

\* The cheapest sum of two spaces over the states up to k is d.
Meets(up, down, d, k) ==
  /\ \A m \in 1..k : d <= Total(up[m], down[m])
  /\ \E m \in 1..k : d = Total(up[m], down[m])

\* By induction on k from the higher of both ends: the two spaces meet on the
\* highest state of the cheapest walk.
LEMMA SpacesMeet ==
  ASSUME NEW dist, Exact(dist), NEW s \in States, NEW t \in States, s # t
  PROVE  /\ \A m \in States : Fit(ForwardSpace(s)[m], N) /\ Fit(BackwardSpace(t)[m], N)
         /\ Meets(ForwardSpace(s), BackwardSpace(t), dist[<<1..N, s, t>>], N)
<1>1. PICK up : up = ForwardSpace(s)
  OBVIOUS
<1>2. PICK down : down = BackwardSpace(t)
  OBVIOUS
<1>3. \A y \in States : up[y] = IF y = s THEN 0 ELSE IF s < y THEN dist[<<1..(y - 1), s, y>>] ELSE Infinity
  BY <1>1, ForwardSpaceIs
<1>4. \A x \in States : down[x] = IF x = t THEN 0 ELSE IF t < x THEN dist[<<1..(x - 1), x, t>>] ELSE Infinity
  BY <1>2, BackwardSpaceIs
<1>5. N \in Nat /\ States = 1..N /\ s \in Nat /\ t \in Nat
  BY Ranks
<1>6. ASSUME NEW m \in States PROVE Fit(up[m], N) /\ Fit(down[m], N)
  <2>1. Fit(0, N) /\ Fit(Infinity, N)
    <3>1. N * Overflow \in Nat
      BY <1>5, Grows
    <3> QED BY <3>1, WeightConstants DEF Fit, Lengths
  <2>2. PICK k \in 0..N : k = m - 1
    BY <1>5
  <2>3. Fit(dist[<<1..k, s, m>>], N) /\ Fit(dist[<<1..k, m, t>>], N)
    BY ShortestIs
  <2>4. Fit(up[m], N)
    BY <1>3, <2>1, <2>2, <2>3
  <2>5. Fit(down[m], N)
    BY <1>4, <2>1, <2>2, <2>3
  <2> QED BY <2>4, <2>5
<1>7. \A m \in States : /\ up[m] \in Lengths /\ down[m] \in Lengths /\ Total(up[m], down[m]) \in Lengths
                        /\ up[m] = Infinity \/ down[m] = Infinity => Total(up[m], down[m]) = Infinity
  <2>1. \A m \in States : up[m] \in Lengths /\ down[m] \in Lengths
    BY <1>6 DEF Fit
  <2>2. \A l \in Lengths, r \in Lengths : l = Infinity \/ r = Infinity => Total(l, r) = Infinity
    BY WeightConstants DEF Total, Lengths
  <2> QED BY <2>1, <2>2, TotalIs
<1>70. ASSUME NEW k \in Nat, NEW m \in States, k + 1 = m
       PROVE  dist[<<1..m, m, t>>] = dist[<<1..k, m, t>>] /\ dist[<<1..m, s, m>>] = dist[<<1..k, s, m>>]
  <2>1. Passes(dist, k, m, m, t) /\ Passes(dist, k, m, s, m)
    BY <1>70, PassesOrNot
  <2> QED BY <2>1 DEF Passes
<1> DEFINE d(k) == dist[<<1..k, s, t>>]
           T == {k \in Nat : k <= N /\ s <= k /\ t <= k => Meets(up, down, d(k), k)}
<1>8. 0 \in T
  BY <1>5
<1>9. ASSUME NEW k \in Nat, k \in T PROVE k + 1 \in T
  <2>1. SUFFICES ASSUME k + 1 <= N, s <= k + 1, t <= k + 1 PROVE Meets(up, down, d(k + 1), k + 1)
    OBVIOUS
  <2>2. PICK m \in States : m = k + 1
    BY <1>5, <2>1
  <2>3. k \in 0..N /\ m \in 0..N /\ m \in Nat /\ m - 1 = k /\ k + 1 = m /\ s <= m /\ t <= m /\ k <= N
    BY <1>5, <2>1, <2>2
  <2>4. d(m) \in Lengths /\ d(k) \in Lengths
    BY <2>3, ShortestIs
  <2>5. \A j \in 1..m : j \in States /\ (j = m \/ (j \in 1..k /\ j < m))
    BY <1>5, <2>3
  <2>6. PICK over \in Lengths : over = Total(up[m], down[m])
    BY <1>7
  <2>7. ASSUME s = m \/ t = m PROVE Meets(up, down, d(m), m)
    <3>1. over = d(m)
      <4>1. CASE s = m
        <5>1. t < m /\ m # t
          BY <1>5, <2>3, <4>1
        <5>2. up[m] = 0 /\ down[m] = dist[<<1..k, m, t>>]
          BY <1>3, <1>4, <2>3, <4>1, <5>1
        <5>3. dist[<<1..m, m, t>>] = dist[<<1..k, m, t>>]
          <6>1. k + 1 = m
            BY <2>3
          <6> QED BY <1>70, <6>1
        <5>4. Total(0, down[m]) = down[m]
          BY <1>7, TotalIs
        <5> QED BY <2>6, <4>1, <5>2, <5>3, <5>4
      <4>2. CASE t = m
        <5>1. s < m /\ m # s
          BY <1>5, <2>3, <4>2
        <5>2. down[m] = 0 /\ up[m] = dist[<<1..k, s, m>>]
          BY <1>3, <1>4, <2>3, <4>2, <5>1
        <5>3. dist[<<1..m, s, m>>] = dist[<<1..k, s, m>>]
          <6>1. k + 1 = m
            BY <2>3
          <6> QED BY <1>70, <6>1
        <5>4. Total(up[m], 0) = up[m]
          BY <1>7, TotalIs
        <5> QED BY <2>6, <4>2, <5>2, <5>3, <5>4
      <4> QED BY <2>7, <4>1, <4>2
    <3>2. ASSUME NEW j \in 1..k PROVE Total(up[j], down[j]) = Infinity
      <4>1. j \in States /\ j < m
        BY <1>5, <2>3
      <4>2. CASE s = m
        <5>0. j # s /\ ~(s < j)
          BY <1>5, <4>1, <4>2
        <5>1. up[j] = Infinity
          BY <1>3, <4>1, <5>0
        <5> QED BY <1>7, <4>1, <5>1
      <4>3. CASE t = m
        <5>0. j # t /\ ~(t < j)
          BY <1>5, <4>1, <4>3
        <5>1. down[j] = Infinity
          BY <1>4, <4>1, <5>0
        <5> QED BY <1>7, <4>1, <5>1
      <4> QED BY <2>7, <4>2, <4>3
    <3>3. d(m) <= Infinity /\ over <= over
      BY <2>4, WeightConstants DEF Lengths
    <3> HIDE DEF d
    <3>4. \A j \in 1..m : d(m) <= Total(up[j], down[j])
      BY <2>5, <2>6, <3>1, <3>2, <3>3
    <3>5. m \in 1..m
      BY <1>5, <2>3
    <3> QED BY <2>6, <3>1, <3>4, <3>5 DEF Meets
  <2>8. ASSUME s # m, t # m PROVE Meets(up, down, d(m), m)
    <3>1. s < m /\ t < m /\ s <= k /\ t <= k
      BY <1>5, <2>3, <2>8
    <3>2. up[m] = dist[<<1..k, s, m>>] /\ down[m] = dist[<<1..k, m, t>>]
      BY <1>3, <1>4, <2>3, <2>8, <3>1
    <3>3. Passes(dist, k, m, s, t)
      BY <2>3, PassesOrNot
    <3>4. d(m) = Cheaper(d(k), over)
      BY <2>6, <3>2, <3>3 DEF Passes
    <3>5. Meets(up, down, d(k), k)
      BY <1>9, <2>3, <3>1
    <3> HIDE DEF d
    <3>6. d(m) <= over /\ d(m) <= d(k) /\ d(m) \in {d(k), over}
      BY <2>4, <2>6, <3>4, WeightConstants DEF Cheaper, Lengths
    <3>7. ASSUME NEW j \in 1..m PROVE d(m) <= Total(up[j], down[j])
      <4>1. CASE j = m
        BY <2>6, <3>6, <4>1
      <4>2. CASE j \in 1..k
        <5>1. d(k) <= Total(up[j], down[j])
          BY <3>5, <4>2 DEF Meets
        <5>2. Total(up[j], down[j]) \in Lengths
          BY <1>7, <2>5
        <5> QED BY <2>4, <3>6, <5>1, <5>2, AtMost
      <4> QED BY <2>5, <4>1, <4>2
    <3>8. \E j \in 1..m : d(m) = Total(up[j], down[j])
      <4>1. CASE d(m) = over
        <5>1. m \in 1..m
          BY <1>5, <2>3
        <5> QED BY <2>6, <4>1, <5>1
      <4>2. CASE d(m) = d(k)
        <5>1. PICK j \in 1..k : d(k) = Total(up[j], down[j])
          BY <3>5 DEF Meets
        <5>2. j \in 1..m
          BY <2>3, <5>1
        <5> QED BY <4>2, <5>1, <5>2
      <4> QED BY <3>6, <4>1, <4>2
    <3> QED BY <3>7, <3>8 DEF Meets
  <2> HIDE DEF d
  <2> QED BY <2>2, <2>7, <2>8
<1>10. Meets(up, down, d(N), N)
  <2>1. N \in T
    <3> HIDE DEF T
    <3> QED BY <1>5, <1>8, <1>9, StepByStep
  <2>2. N <= N /\ s <= N /\ t <= N
    BY <1>5
  <2> HIDE DEF d
  <2> QED BY <2>1, <2>2
<1> QED BY <1>1, <1>2, <1>6, <1>10

\* The join of the two spaces is the cheapest walk.
LEMMA JoinIsShortest ==
  ASSUME NEW dist, Exact(dist), NEW s \in States, NEW t \in States, s # t
  PROVE  Join(ForwardSpace(s), BackwardSpace(t)) = dist[<<States, s, t>>]
<1>1. PICK up : up = ForwardSpace(s)
  OBVIOUS
<1>2. PICK down : down = BackwardSpace(t)
  OBVIOUS
<1>3. PICK d : d = dist[<<1..N, s, t>>]
  OBVIOUS
<1>4. \A m \in States : Fit(up[m], N) /\ Fit(down[m], N)
  BY <1>1, <1>2, SpacesMeet
<1>5. Meets(up, down, d, N)
  BY <1>1, <1>2, <1>3, SpacesMeet
<1>6. States = 1..N
  BY Ranks
<1>7. \A m \in States : Plus(up[m], down[m]) = Total(up[m], down[m]) /\ Total(up[m], down[m]) \in Lengths
  <2>1. \A m \in States : Plus(up[m], down[m]) = Total(up[m], down[m])
    BY <1>4, TotalIsPlus
  <2>2. \A m \in States : Total(up[m], down[m]) \in Lengths
    BY <1>4, TotalIs DEF Fit
  <2> QED BY <2>1, <2>2
<1> DEFINE S == {Plus(up[m], down[m]) : m \in States}
<1>8. S \in SUBSET Nat /\ d \in S /\ \A y \in S : d <= y
  <2>1. Lengths \subseteq Nat
    BY WeightConstants DEF Lengths
  <2> QED BY <1>5, <1>6, <1>7, <2>1 DEF Meets
<1>9. Join(up, down) = Least(S)
  BY DEF Join
<1> HIDE DEF S
<1>10. Least(S) \in S /\ \A y \in S : Least(S) <= y
  BY <1>8, MinIsLeast DEF Least
<1>11. PICK least : least = Least(S)
  OBVIOUS
<1>12. least = d
  <2>1. least \in Nat /\ d \in Nat /\ least <= d /\ d <= least
    BY <1>8, <1>10, <1>11
  <2> QED BY <2>1
<1> QED BY <1>1, <1>2, <1>3, <1>6, <1>9, <1>11, <1>12

\* An arc that no lower triangle explains weighs what its turn does.
LEMMA UnexplainedArcs ==
  ASSUME Customized, NEW a \in arcs, weight[a] < Overflow, Witnesses(a) = {}
  PROVE  weight[a] = BaseWeight(cost, a)
<1>1. /\ IsNetwork(net) /\ arcs \subseteq Loopless /\ cost \in Profiles /\ weight \in [arcs -> Weights]
      /\ a \in Loopless /\ weight[a] = Value(cost, weight, a, States)
  BY DEF Customized
<1>2. PICK v : v = weight[a]
  OBVIOUS
<1>3. IsValue(v, cost, weight, a, States)
  BY <1>1, <1>2, ValueIs
<1>4. ASSUME NEW m \in LowerTriangles(a) PROVE v # Sides(weight, a, m)
  BY <1>2, <1>4 DEF Witnesses, Sides
<1> QED BY <1>2, <1>3, <1>4 DEF IsValue

\* The queries of the model are exact under the invariant.
LEMMA QueriesHold == ASSUME IInv PROVE QueriesAreExact
<1>1. SUFFICES ASSUME Served PROVE QueriesAreExact
  BY DEF QueriesAreExact
<1>2. Customized
  BY <1>1, InvariantCustomizes DEF Served
<1>3. \A a \in arcs : weight[a] # Overflow
  BY <1>1 DEF IInv, Fitting
<1>4. PICK dist : IsShortest(dist, Turns)
  BY <1>2, TurnsFit, ShortestExists
<1>5. Exact(dist)
  BY <1>2, <1>3, <1>4 DEF Exact
<1>6. ASSUME NEW s \in States, NEW t \in States, s # t
      PROVE  Join(ForwardSpace(s), BackwardSpace(t)) = CheapestFrom(States, Base, States, s)[t]
  <2>1. Join(ForwardSpace(s), BackwardSpace(t)) = dist[<<States, s, t>>]
    BY <1>5, <1>6, JoinIsShortest
  <2>2. CheapestFrom(States, Base, States, s)[t] = dist[<<States, s, t>>]
    BY <1>4, BaseIs DEF IsShortest
  <2> QED BY <2>1, <2>2
<1>7. \A a \in arcs : weight[a] < Overflow /\ Witnesses(a) = {} => weight[a] = BaseWeight(cost, a)
  BY <1>2, UnexplainedArcs
<1>8. \A s \in States : \A t \in States \ {s} :
        Join(ForwardSpace(s), [x \in States |-> BackwardSpace(x)][t]) = CheapestFrom(States, Base, States, s)[t]
  BY <1>6
<1> QED BY <1>7, <1>8 DEF QueriesAreExact

\* What is served is exact, for any network, any metric, any order of the
\* parallel tasks and any avoid set: the weights are those of the cheapest
\* walks through lower ranks, and a query reads the cost of the cheapest walk
\* off two searches that only climb (compile.rs, customize; recustomize.rs,
\* recustomize_changed_edges; acceleration.rs, join_cch_spaces).
THEOREM ServedIsExact == Spec => []HierarchyIsExact
<1>1. IInv => HierarchyIsExact
  BY WeightsHold, QueriesHold DEF HierarchyIsExact
<1> QED BY <1>1, Invariant, PTL

-----------------------------------------------------------------------------
(* Lists of the elements of a set.                                         *)

\* Numbers from the least to the greatest.
LEMMA Sorting ==
  ASSUME NEW S \in SUBSET Int, IsFiniteSet(S)
  PROVE  /\ Lists(Sorted(S), S)
         /\ \A m, n \in 1..Cardinality(S) : m < n => Sorted(S)[m] < Sorted(S)[n]
<1> DEFINE R == {p \in S \X S : p[1] < p[2]}
<1>1. Orders(R, S)
  BY DEF Orders
<1>2. ASSUME NEW x \in S PROVE {y \in S : <<y, x>> \in R} = {y \in S : y < x}
  OBVIOUS
<1>3. Sorted(S) = Listed(S, R)
  <2>1. \A n \in 1..Cardinality(S) : (CHOOSE x \in S : Cardinality({y \in S : <<y, x>> \in R}) = n - 1)
                                   = (CHOOSE x \in S : Cardinality({y \in S : y < x}) = n - 1)
    <3> HIDE DEF R
    <3> QED BY <1>2
  <2> HIDE DEF R
  <2> QED BY <2>1, Zenon DEF Sorted, Arranged, Listed
<1>4. /\ Lists(Listed(S, R), S)
      /\ \A m, n \in 1..Cardinality(S) : m < n => <<Listed(S, R)[m], Listed(S, R)[n]>> \in R
  <2> HIDE DEF R
  <2> QED BY <1>1, Arranging
<1>5. \A m, n \in 1..Cardinality(S) : m < n => Sorted(S)[m] < Sorted(S)[n]
  BY <1>3, <1>4
<1> QED BY <1>3, <1>4, <1>5

-----------------------------------------------------------------------------
(* Cells of a graph.                                                       *)

IsGraph(graph, E) ==
  /\ E \in SUBSET Nat /\ IsFiniteSet(E) /\ graph.at \in [E -> Int \X Int]
  /\ \A e, f \in E : <<e, f>> \in graph.linked => <<f, e>> \in graph.linked

\* A cell is finite, and its states are numbers.
LEMMA CellIs ==
  ASSUME NEW E, NEW graph, IsGraph(graph, E), NEW cell \in SUBSET E
  PROVE  /\ IsFiniteSet(cell) /\ Cardinality(cell) \in Nat /\ DOMAIN graph.at = E
         /\ cell \in SUBSET Nat /\ cell \in SUBSET Int
<1>1. E \in SUBSET Nat /\ IsFiniteSet(E) /\ DOMAIN graph.at = E
  BY DEF IsGraph
<1>2. IsFiniteSet(cell) /\ Cardinality(cell) \in Nat
  BY <1>1, FS_Subset, FS_CardinalityType
<1>3. \A n \in Nat : n \in Int
  OBVIOUS
<1> QED BY <1>1, <1>2, <1>3

\* What is reached is the least set around the sources that nothing leaves.
LEMMA Reaching ==
  ASSUME NEW E, NEW graph, IsGraph(graph, E), NEW cell \in SUBSET E, NEW from \in SUBSET cell
  PROVE  /\ from \subseteq ReachedIn(graph, cell, from)
         /\ KeepsIn(graph, cell, ReachedIn(graph, cell, from))
         /\ \A D : KeepsIn(graph, cell, D) /\ from \subseteq D => ReachedIn(graph, cell, from) \subseteq D
<1> DEFINE k == Cardinality(cell)
           beside(states) == cell \cap UNION {Near(graph, e) : e \in states}
           Is(f) == f = [n \in 0..k |-> IF n = 0 THEN from ELSE f[n - 1] \cup beside(f[n - 1])]
           r == CHOOSE f : Is(f)
<1>1. IsFiniteSet(cell) /\ k \in Nat /\ DOMAIN graph.at = E
  BY CellIs
<1>2. ASSUME NEW s PROVE beside(s) = {x \in cell : \E e \in s : <<e, x>> \in graph.linked}
  <2>1. \A x : x \in UNION {Near(graph, e) : e \in s} <=> \E e \in s : x \in Near(graph, e)
    BY Zenon
  <2>2. \A e, x : x \in Near(graph, e) <=> x \in E /\ <<e, x>> \in graph.linked
    BY <1>1 DEF Near
  <2> QED BY <2>1, <2>2
<1>3. ReachedIn(graph, cell, from) = r[k]
  BY Zenon DEF ReachedIn
<1> HIDE DEF beside
<1>4. \E f : Is(f)
  <2>1. PICK f \in [0..k -> SUBSET cell] : Spreads(f, graph, cell, from)
    BY <1>1, Spreading
  <2>2. f[0] = from /\ \A v \in 1..k : f[v] = f[v - 1] \cup beside(f[v - 1])
    BY <1>2, <2>1, Zenon DEF Spreads
  <2>3. \A v \in 0..k : f[v] = IF v = 0 THEN from ELSE f[v - 1] \cup beside(f[v - 1])
    <3>1. \A v \in 0..k : v # 0 => v \in 1..k
      BY <1>1
    <3> QED BY <2>2, <3>1
  <2>4. f = [v \in 0..k |-> f[v]]
    BY <2>1
  <2> QED BY <2>3, <2>4, Zenon
<1>5. Is(r)
  BY <1>4, Zenon
<1> HIDE DEF r, k
<1>6. Spreads(r, graph, cell, from)
  <2>1. \A n \in 0..k : r[n] = IF n = 0 THEN from ELSE r[n - 1] \cup beside(r[n - 1])
    BY <1>5, Zenon
  <2>2. 0 \in 0..k /\ \A n \in 1..k : n \in 0..k /\ n # 0
    BY <1>1
  <2> QED BY <1>2, <2>1, <2>2 DEF Spreads, k
<1> QED BY <1>1, <1>3, <1>6, SpreadingKeeps DEF k

\* The states that one another reach make up a cell.
LEMMA Components ==
  ASSUME NEW E, NEW graph, IsGraph(graph, E), NEW cell \in SUBSET E, NEW e \in cell, NEW f \in ReachedIn(graph, cell, {e})
  PROVE  f \in cell /\ e \in ReachedIn(graph, cell, {e}) /\ ReachedIn(graph, cell, {f}) = ReachedIn(graph, cell, {e})
<1> DEFINE C(x) == ReachedIn(graph, cell, {x})
<1>1. ASSUME NEW x \in cell PROVE /\ x \in C(x) /\ KeepsIn(graph, cell, C(x))
                                  /\ \A D : KeepsIn(graph, cell, D) /\ x \in D => C(x) \subseteq D
  <2>1. {x} \in SUBSET cell
    OBVIOUS
  <2>2. /\ {x} \subseteq C(x) /\ KeepsIn(graph, cell, C(x))
        /\ \A D : KeepsIn(graph, cell, D) /\ {x} \subseteq D => C(x) \subseteq D
    BY <2>1, Reaching
  <2> HIDE DEF C
  <2> QED BY <2>2
<1> HIDE DEF C
<1>2. f \in cell /\ f \in C(e)
  BY <1>1 DEF KeepsIn, C
<1>3. C(f) \subseteq C(e)
  BY <1>1, <1>2
<1>4. e \in C(f)
  <2>1. SUFFICES ASSUME e \notin C(f) PROVE FALSE
    OBVIOUS
  <2>2. KeepsIn(graph, cell, cell \ C(f))
    <3>1. \A x, y \in cell : <<x, y>> \in graph.linked => <<y, x>> \in graph.linked
      BY DEF IsGraph
    <3>2. \A y \in C(f), x \in cell : <<y, x>> \in graph.linked => x \in C(f)
      BY <1>1, <1>2 DEF KeepsIn
    <3> QED BY <3>1, <3>2, <1>1 DEF KeepsIn
  <2>3. C(e) \subseteq cell \ C(f)
    BY <1>1, <2>1, <2>2
  <2> QED BY <1>1, <1>2, <2>3
<1>5. C(e) \subseteq C(f)
  BY <1>1, <1>2, <1>4
<1> QED BY <1>1, <1>2, <1>3, <1>5 DEF C

\* A cell ranked by a value and then by id.
LEMMA Ranked ==
  ASSUME NEW S \in SUBSET Int, IsFiniteSet(S), NEW value \in [S -> Int]
  PROVE  /\ Lists(Ranking(S, value), S)
         /\ \A m, n \in 1..Cardinality(S) : m < n =>
              LET a == Ranking(S, value)[m]
                  b == Ranking(S, value)[n]
              IN  value[a] < value[b] \/ (value[a] = value[b] /\ a < b)
<1> DEFINE before(a, b) == value[a] < value[b] \/ (value[a] = value[b] /\ a < b)
           R == {p \in S \X S : before(p[1], p[2])}
<1>1. Orders(R, S)
  BY DEF Orders
<1>2. ASSUME NEW x \in S PROVE {y \in S : <<y, x>> \in R} = {y \in S : before(y, x)}
  OBVIOUS
<1>3. Ranking(S, value) = Listed(S, R)
  <2>1. \A n \in 1..Cardinality(S) : (CHOOSE x \in S : Cardinality({y \in S : <<y, x>> \in R}) = n - 1)
                                   = (CHOOSE x \in S : Cardinality({y \in S : before(y, x)}) = n - 1)
    <3> HIDE DEF R, before
    <3> QED BY <1>2
  <2> HIDE DEF R
  <2> QED BY <2>1, Zenon DEF Ranking, Arranged, Listed
<1>4. /\ Lists(Listed(S, R), S)
      /\ \A m, n \in 1..Cardinality(S) : m < n => <<Listed(S, R)[m], Listed(S, R)[n]>> \in R
  <2> HIDE DEF R
  <2> QED BY <1>1, Arranging
<1>5. \A m, n \in 1..Cardinality(S) : m < n => before(Ranking(S, value)[m], Ranking(S, value)[n])
  <2>1. \A a, b : <<a, b>> \in R => before(a, b)
    OBVIOUS
  <2> HIDE DEF before, R
  <2> QED BY <1>3, <1>4, <2>1
<1> QED BY <1>3, <1>4, <1>5

-----------------------------------------------------------------------------
(* The order of a small cell: the state of fewest neighbours goes next.    *)

Joined(c, e) == {f \in c.left : <<e, f>> \in c.linked}

Fewest(c) ==
  CHOOSE e \in c.left : \A f \in c.left : \/ Cardinality(Joined(c, e)) < Cardinality(Joined(c, f))
                                          \/ Cardinality(Joined(c, e)) = Cardinality(Joined(c, f)) /\ e <= f

Taken(c, e) ==
  [order |-> Append(c.order, e), left |-> c.left \ {e},
   linked |-> c.linked \cup {p \in Joined(c, e) \X Joined(c, e) : p[1] # p[2]}]

Eliminates(f, graph, cell) ==
  f = [n \in 0..Cardinality(cell) |->
         IF n = 0 THEN [order |-> << >>, left |-> cell, linked |-> graph.linked] ELSE Taken(f[n - 1], Fewest(f[n - 1]))]

\* Some state that is left has the fewest neighbours.
LEMMA FewestIs ==
  ASSUME NEW c, c.left \in SUBSET Int, IsFiniteSet(c.left), c.left # {}
  PROVE  Fewest(c) \in c.left
<1> DEFINE value == [e \in c.left |-> Cardinality(Joined(c, e))]
<1>1. value \in [c.left -> Int]
  <2>1. \A e \in c.left : Cardinality(Joined(c, e)) \in Int
    <3>1. \A e : Joined(c, e) \in SUBSET c.left
      BY DEF Joined
    <3> QED BY <3>1, FS_Subset, FS_CardinalityType
  <2> QED BY <2>1
<1>2. PICK e \in c.left : \A f \in c.left : value[e] < value[f] \/ (value[e] = value[f] /\ e <= f)
  <2> HIDE DEF value
  <2> QED BY <1>1, FirstRanked
<1>3. \A f \in c.left : \/ Cardinality(Joined(c, e)) < Cardinality(Joined(c, f))
                        \/ Cardinality(Joined(c, e)) = Cardinality(Joined(c, f)) /\ e <= f
  BY <1>2
<1> QED BY <1>3, Zenon DEF Fewest

\* Every state is taken once.
LEMMA MinimumDegreeLists ==
  ASSUME NEW E, NEW graph, IsGraph(graph, E), NEW cell \in SUBSET E
  PROVE  Lists(MinimumDegreeOrder(graph, cell), cell)
<1> DEFINE k == Cardinality(cell)
           start == [order |-> << >>, left |-> cell, linked |-> graph.linked]
           D == [order : Seq(cell), left : SUBSET cell, linked : SUBSET (graph.linked \cup (cell \X cell))]
           next == [p \in (1..k) \X D |-> IF p[2].left = {} THEN p[2] ELSE Taken(p[2], Fewest(p[2]))]
<1>1. IsFiniteSet(cell) /\ k \in Nat /\ cell \in SUBSET Int
  BY CellIs
<1>2. start \in D
  OBVIOUS
<1>3. ASSUME NEW c \in D, c.left # {} PROVE Fewest(c) \in c.left /\ Taken(c, Fewest(c)) \in D
  <2>1. c.left \in SUBSET cell /\ c.order \in Seq(cell) /\ c.linked \in SUBSET (graph.linked \cup (cell \X cell))
    OBVIOUS
  <2>2. c.left \in SUBSET Int /\ IsFiniteSet(c.left)
    BY <1>1, <2>1, FS_Subset
  <2>3. Fewest(c) \in c.left
    BY <1>3, <2>2, FewestIs
  <2>4. Append(c.order, Fewest(c)) \in Seq(cell)
    BY <2>1, <2>3
  <2>5. {p \in Joined(c, Fewest(c)) \X Joined(c, Fewest(c)) : p[1] # p[2]} \in SUBSET (cell \X cell)
    BY <2>1 DEF Joined
  <2> QED BY <2>1, <2>3, <2>4, <2>5 DEF Taken
<1>4. next \in [(1..k) \X D -> D]
  <2>1. \A p \in (1..k) \X D : (IF p[2].left = {} THEN p[2] ELSE Taken(p[2], Fewest(p[2]))) \in D
    <3>1. \A p \in (1..k) \X D : p[2] \in D
      OBVIOUS
    <3> HIDE DEF D
    <3> QED BY <3>1, <1>3
  <2> HIDE DEF D
  <2> QED BY <2>1
<1>5. PICK f : Follows(f, k, D, start, next)
  <2> HIDE DEF next, k, D, start
  <2> QED BY <1>1, <1>2, <1>4, Stepwise
<1>6. f \in [0..k -> D] /\ f[0] = start /\ \A v \in 1..k : f[v] = next[<<v, f[v - 1]>>]
  BY <1>5, Zenon DEF Follows
<1> DEFINE Good(n) == /\ Cardinality(f[n].left) = k - n /\ Len(f[n].order) = n
                      /\ \A x \in cell : x \in f[n].left \/ \E m \in 1..n : f[n].order[m] = x
                      /\ n > 0 => f[n] = Taken(f[n - 1], Fewest(f[n - 1]))
           T == {n \in Nat : n <= k => Good(n)}
<1>7. 0 \in T
  <2>1. f[0].left = cell /\ f[0].order = << >> /\ k = k - 0
    BY <1>1, <1>6
  <2> HIDE DEF start, D, next
  <2> QED BY <2>1
<1>8. ASSUME NEW n \in Nat, n \in T PROVE n + 1 \in T
  <2>1. SUFFICES ASSUME n + 1 <= k PROVE Good(n + 1)
    OBVIOUS
  <2>2. n <= k /\ n + 1 \in 1..k /\ (n + 1) - 1 = n /\ n \in 0..k
    BY <1>1, <2>1
  <2>3. Good(n) /\ f[n] \in D
    BY <1>6, <1>8, <2>2
  <2>4. f[n].left # {} /\ IsFiniteSet(f[n].left) /\ f[n].left \in SUBSET cell
    <3>1. f[n].left \in SUBSET cell
      BY <2>3
    <3>2. Cardinality({}) = 0
      BY FS_EmptySet
    <3> QED BY <1>1, <2>1, <2>3, <3>1, <3>2, FS_Subset
  <2> DEFINE e == Fewest(f[n])
             c == f[n]
  <2>5. e \in c.left
    BY <1>3, <2>3, <2>4
  <2>6. f[n + 1] = Taken(c, e)
    <3>1. f[n + 1] = next[<<n + 1, f[n]>>]
      BY <1>6, <2>2
    <3> HIDE DEF D
    <3> QED BY <3>1, <2>2, <2>3, <2>4
  <2>7. c.order \in Seq(cell) /\ Len(c.order) = n
    BY <2>3
  <2>8. f[n + 1].left = c.left \ {e} /\ f[n + 1].order = Append(c.order, e)
    BY <2>6 DEF Taken
  <2> HIDE DEF e, c, next
  <2>9. Cardinality(f[n + 1].left) = k - (n + 1)
    <3>1. Cardinality(c.left) = k - n /\ IsFiniteSet(c.left)
      BY <2>3, <2>4 DEF c
    <3>2. Cardinality(c.left \ {e}) = Cardinality(c.left) - 1
      BY <2>5, <3>1, FS_RemoveElement
    <3> HIDE DEF k
    <3> QED BY <1>1, <2>8, <3>1, <3>2
  <2>10. /\ Len(f[n + 1].order) = n + 1 /\ f[n + 1].order[n + 1] = e
         /\ \A m \in 1..n : f[n + 1].order[m] = c.order[m]
    <3>1. e \in cell
      BY <2>4, <2>5 DEF c
    <3> QED BY <2>7, <2>8, <3>1, AppendProperties
  <2>11. ASSUME NEW x \in cell PROVE x \in f[n + 1].left \/ \E m \in 1..(n + 1) : f[n + 1].order[m] = x
    <3>1. CASE x = e
      <4>1. n + 1 \in 1..(n + 1)
        OBVIOUS
      <4> QED BY <2>10, <3>1, <4>1
    <3>2. CASE x \in c.left /\ x # e
      BY <2>8, <3>2
    <3>3. CASE x \notin c.left
      <4>1. PICK m \in 1..n : c.order[m] = x
        BY <2>3, <3>3 DEF c
      <4>2. m \in 1..(n + 1)
        OBVIOUS
      <4> QED BY <2>10, <4>1, <4>2
    <3> QED BY <3>1, <3>2, <3>3
  <2>12. f[n + 1] = Taken(f[(n + 1) - 1], Fewest(f[(n + 1) - 1]))
    BY <2>2, <2>6 DEF c, e
  <2> QED BY <2>9, <2>10, <2>11, <2>12
<1>9. \A n \in 0..k : Good(n)
  <2> HIDE DEF Good
  <2>1. Nat \subseteq T
    <3> HIDE DEF T
    <3> QED BY <1>7, <1>8, StepByStep
  <2> QED BY <1>1, <2>1
<1>10. Eliminates(f, graph, cell)
  <2>1. \A n \in 0..k : f[n] = IF n = 0 THEN start ELSE Taken(f[n - 1], Fewest(f[n - 1]))
    <3>1. \A n \in 0..k : n # 0 => n > 0
      BY <1>1
    <3> HIDE DEF D, next
    <3> QED BY <1>6, <1>9, <3>1
  <2>2. f = [n \in 0..k |-> f[n]]
    BY <1>6
  <2> QED BY <2>1, <2>2, Zenon DEF Eliminates
<1> DEFINE g == CHOOSE x : Eliminates(x, graph, cell)
<1>11. Eliminates(g, graph, cell)
  BY <1>10, Zenon
<1>12. MinimumDegreeOrder(graph, cell) = g[k].order
  BY Zenon DEF MinimumDegreeOrder, Eliminates, Taken, Fewest, Joined
<1> HIDE DEF g
<1>13. \A n \in 0..k : g[n] = IF n = 0 THEN start ELSE Taken(g[n - 1], Fewest(g[n - 1]))
  BY <1>11, Zenon DEF Eliminates
<1>14. \A n \in 0..k : f[n] = IF n = 0 THEN start ELSE Taken(f[n - 1], Fewest(f[n - 1]))
  BY <1>10, Zenon DEF Eliminates
<1> HIDE DEF next, D, start, Good, T
<1> DEFINE U == {n \in Nat : n <= k => g[n] = f[n]}
<1>15. 0 \in U
  BY <1>1, <1>13, <1>14
<1>16. ASSUME NEW n \in Nat, n \in U PROVE n + 1 \in U
  <2>1. n + 1 <= k => n <= k /\ n + 1 \in 0..k /\ n + 1 # 0 /\ (n + 1) - 1 = n
    BY <1>1
  <2> QED BY <1>13, <1>14, <1>16, <2>1
<1>17. g[k] = f[k]
  <2>1. Nat \subseteq U
    <3> HIDE DEF U
    <3> QED BY <1>15, <1>16, StepByStep
  <2> QED BY <1>1, <2>1
<1>18. Good(k) /\ f[k] \in D /\ k \in 0..k
  BY <1>1, <1>6, <1>9
<1>19. f[k].left = {} /\ f[k].order \in Seq(cell) /\ Len(f[k].order) = k
  <2>1. f[k].left \in SUBSET cell /\ f[k].order \in Seq(cell) /\ Len(f[k].order) = k /\ Cardinality(f[k].left) = k - k
    BY <1>18 DEF D, Good
  <2>2. IsFiniteSet(f[k].left)
    BY <1>1, <2>1, FS_Subset
  <2>3. Cardinality(f[k].left) = 0
    BY <1>1, <2>1
  <2>4. f[k].left = {}
    BY <2>2, <2>3, FS_EmptySet
  <2> QED BY <2>1, <2>4
<1>20. \A x \in cell : \E m \in 1..k : f[k].order[m] = x
  BY <1>18, <1>19 DEF Good
<1>21. f[k].order \in [1..k -> cell]
  BY <1>19
<1>22. Lists(f[k].order, cell)
  BY <1>1, <1>20, <1>21, ListsBy
<1> QED BY <1>12, <1>17, <1>22

-----------------------------------------------------------------------------
(* Folds from the left over the positions of a list.                       *)

-----------------------------------------------------------------------------
(* Splitting a cell in two sides and what keeps them apart.                *)

\* The three make up the cell, none is all of it, and no transition joins the sides.
Splits(graph, cell, s) ==
  /\ s.a \cup s.b \cup s.separator = cell
  /\ s.a \cap s.b = {} /\ s.a \cap s.separator = {} /\ s.b \cap s.separator = {}
  /\ s.a # cell /\ s.b # cell /\ s.separator # cell
  /\ graph.linked \cap (s.a \X s.b) = {}

\* The smallest cut nearest to the sources, if any, splits the cell.
LEMMA FlowSplits ==
  ASSUME NEW E, NEW graph, IsGraph(graph, E), NEW cell \in SUBSET E,
         NEW sources \in SUBSET cell, sources # {}, NEW sinks \in SUBSET cell, sinks # {}, NEW limit
  PROVE  \/ FlowSplit(graph, cell, sources, sinks, limit) = {}
         \/ \E s \in [a : SUBSET cell, b : SUBSET cell, separator : SUBSET cell] :
              /\ FlowSplit(graph, cell, sources, sinks, limit) = {s}
              /\ Splits(graph, cell, s) /\ sources \subseteq s.a /\ sinks \subseteq s.b
<1> DEFINE inner == cell \ (sources \cup sinks)
           side(cut) == ReachedIn(graph, cell \ cut, sources)
           cuts == {cut \in SUBSET inner : Cardinality(cut) < limit /\ side(cut) \cap sinks = {}}
           least == {cut \in cuts : \A other \in cuts : Cardinality(cut) <= Cardinality(other)}
           Nearest(c) == \A other \in least : side(other) \subseteq side(c) => side(other) = side(c)
           cut == CHOOSE c \in least : Nearest(c)
           s == [a |-> side(cut), b |-> cell \ (side(cut) \cup cut), separator |-> cut]
<1>1. FlowSplit(graph, cell, sources, sinks, limit) = IF cuts = {} THEN {} ELSE {s}
  BY Zenon DEF FlowSplit
<1>2. SUFFICES ASSUME cuts # {}
               PROVE  /\ s \in [a : SUBSET cell, b : SUBSET cell, separator : SUBSET cell]
                      /\ Splits(graph, cell, s) /\ sources \subseteq s.a /\ sinks \subseteq s.b
  <2> HIDE DEF cuts, s
  <2> QED BY <1>1
<1>3. IsFiniteSet(cell)
  BY CellIs
<1>4. ASSUME NEW c \in cuts
      PROVE  /\ c \in SUBSET cell /\ c \cap sources = {} /\ c \cap sinks = {} /\ Cardinality(c) \in Nat
             /\ side(c) \in SUBSET (cell \ c) /\ side(c) \cap sinks = {} /\ sources \subseteq side(c)
             /\ KeepsIn(graph, cell \ c, side(c)) /\ IsFiniteSet(side(c)) /\ Cardinality(side(c)) \in Nat
  <2>1. c \in SUBSET cell /\ c \cap sources = {} /\ c \cap sinks = {} /\ side(c) \cap sinks = {}
    OBVIOUS
  <2>2. cell \ c \in SUBSET E /\ sources \in SUBSET (cell \ c)
    BY <2>1
  <2>3. sources \subseteq side(c) /\ KeepsIn(graph, cell \ c, side(c))
    BY <2>2, Reaching
  <2> HIDE DEF side, cuts
  <2>4. side(c) \in SUBSET (cell \ c)
    BY <2>3 DEF KeepsIn
  <2>5. side(c) \in SUBSET cell
    BY <2>4
  <2>6. Cardinality(c) \in Nat /\ IsFiniteSet(side(c)) /\ Cardinality(side(c)) \in Nat
    BY <1>3, <2>1, <2>5, FS_Subset, FS_CardinalityType
  <2> QED BY <2>1, <2>3, <2>4, <2>6
<1>5. least # {} /\ least \subseteq cuts
  <2> DEFINE sizes == {Cardinality(c) : c \in cuts}
  <2>1. sizes \in SUBSET Nat /\ sizes # {}
    <3>1. \A c \in cuts : Cardinality(c) \in Nat
      BY <1>4
    <3> HIDE DEF cuts
    <3> QED BY <1>2, <3>1
  <2>2. Min(sizes) \in sizes /\ \A y \in sizes : Min(sizes) <= y
    <3> HIDE DEF sizes
    <3> QED BY <2>1, MinIsLeast
  <2>3. PICK c \in cuts : Cardinality(c) = Min(sizes)
    <3> HIDE DEF cuts
    <3> QED BY <2>2
  <2>4. \A other \in cuts : Cardinality(c) <= Cardinality(other)
    <3> HIDE DEF cuts
    <3> QED BY <2>2, <2>3
  <2>5. c \in least
    <3> HIDE DEF cuts
    <3> QED BY <2>4
  <2> HIDE DEF cuts
  <2> QED BY <2>5
<1> HIDE DEF side, cuts, least
<1>6. \E c \in least : Nearest(c)
  <2> DEFINE sizes == {Cardinality(side(c)) : c \in least}
  <2>1. sizes \in SUBSET Nat /\ sizes # {}
    <3>1. \A c \in least : Cardinality(side(c)) \in Nat
      BY <1>4, <1>5
    <3> QED BY <1>5, <3>1
  <2>2. Min(sizes) \in sizes /\ \A y \in sizes : Min(sizes) <= y
    <3> HIDE DEF sizes
    <3> QED BY <2>1, MinIsLeast
  <2>3. PICK c \in least : Cardinality(side(c)) = Min(sizes)
    BY <2>2
  <2>4. ASSUME NEW other \in least, side(other) \subseteq side(c) PROVE side(other) = side(c)
    <3>1. Cardinality(side(c)) <= Cardinality(side(other))
      BY <2>2, <2>3
    <3>2. /\ IsFiniteSet(side(c)) /\ Cardinality(side(c)) \in Nat /\ Cardinality(side(other)) \in Nat
          /\ side(other) \in SUBSET side(c)
      BY <1>4, <1>5, <2>4
    <3>3. /\ Cardinality(side(other)) <= Cardinality(side(c))
          /\ Cardinality(side(c)) = Cardinality(side(other)) => side(c) = side(other)
      BY <3>2, FS_Subset
    <3> QED BY <3>1, <3>2, <3>3
  <2> QED BY <2>4
<1>7. cut \in cuts
  <2>1. cut \in least
    <3> HIDE DEF Nearest
    <3> QED BY <1>6, Zenon
  <2> HIDE DEF cut
  <2> QED BY <1>5, <2>1
<1> HIDE DEF cut
<1>8. /\ cut \in SUBSET cell /\ cut \cap sources = {} /\ cut \cap sinks = {}
      /\ side(cut) \in SUBSET (cell \ cut) /\ side(cut) \cap sinks = {} /\ sources \subseteq side(cut)
      /\ KeepsIn(graph, cell \ cut, side(cut))
  BY <1>4, <1>7
<1>9. s \in [a : SUBSET cell, b : SUBSET cell, separator : SUBSET cell]
  BY <1>8
<1>10. s.a \cup s.b \cup s.separator = cell
  BY <1>8
<1>11. s.a \cap s.b = {} /\ s.a \cap s.separator = {} /\ s.b \cap s.separator = {}
  BY <1>8
<1>12. s.a # cell /\ s.b # cell /\ s.separator # cell
  <2>1. PICK x \in sources, y \in sinks : x \in cell /\ y \in cell
    OBVIOUS
  <2>2. y \notin s.a /\ x \notin s.b /\ x \notin s.separator
    BY <1>8
  <2> HIDE DEF s
  <2> QED BY <2>1, <2>2
<1>13. graph.linked \cap (s.a \X s.b) = {}
  <2>1. SUFFICES ASSUME NEW e \in s.a, NEW f \in s.b, <<e, f>> \in graph.linked PROVE FALSE
    OBVIOUS
  <2>2. e \in side(cut) /\ f \in cell \ cut /\ f \notin side(cut)
    OBVIOUS
  <2> QED BY <1>8, <2>1, <2>2 DEF KeepsIn
<1>14. sources \subseteq s.a /\ sinks \subseteq s.b
  BY <1>8
<1> HIDE DEF s
<1> QED BY <1>9, <1>10, <1>11, <1>12, <1>13, <1>14 DEF Splits

\* At the median of the wider axis.
LEMMA CoordinateSplits ==
  ASSUME NEW E, NEW graph, IsGraph(graph, E), NEW cell \in SUBSET E, Cardinality(cell) > 1
  PROVE  Splits(graph, cell, CoordinateSplit(graph, cell))
<1> DEFINE values(axis) == {graph.at[e][axis] : e \in cell}
           axis == IF Max(values(1)) - Min(values(1)) >= Max(values(2)) - Min(values(2)) THEN 1 ELSE 2
           value == [e \in cell |-> graph.at[e][axis]]
           order == Ranking(cell, value)
           lower == Range(SubSeq(order, 1, Len(order) \div 2))
           border == {e \in lower : Near(graph, e) \cap (cell \ lower) # {}}
           s == [a |-> lower \ border, b |-> cell \ lower, separator |-> border]
           k == Cardinality(cell)
<1>1. CoordinateSplit(graph, cell) = s
  BY Zenon DEF CoordinateSplit
<1>2. IsFiniteSet(cell) /\ cell \in SUBSET Int /\ k \in Nat
  BY CellIs
<1>3. value \in [cell -> Int]
  <2>1. axis \in {1, 2}
    <3> HIDE DEF values
    <3> QED OBVIOUS
  <2> HIDE DEF axis
  <2>2. \A e \in cell : graph.at[e] \in Int \X Int
    BY DEF IsGraph
  <2> QED BY <2>1, <2>2
<1>4. Lists(order, cell)
  <2> HIDE DEF value
  <2> QED BY <1>2, <1>3, Ranked
<1> HIDE DEF order
<1>5. Len(order) = k /\ 1 <= k \div 2 /\ k \div 2 < k /\ k \div 2 \in Nat
  BY <1>2, <1>4 DEF Lists
<1>6. lower \in SUBSET cell /\ Cardinality(lower) = k \div 2
  <2>1. /\ Range(SubSeq(order, 1, k \div 2)) \subseteq cell
        /\ Cardinality(Range(SubSeq(order, 1, k \div 2))) = (k \div 2 - 1) + 1
    <3>1. 1 \in Nat /\ k \div 2 \in Nat /\ 1 <= 1 /\ 1 <= k \div 2 + 1 /\ k \div 2 <= k
      BY <1>2, <1>5
    <3> DEFINE h == k \div 2
    <3> HIDE DEF h
    <3>2. Range(SubSeq(order, 1, h)) \subseteq cell /\ Cardinality(Range(SubSeq(order, 1, h))) = (h - 1) + 1
      BY <1>4, <3>1, Stretches DEF h
    <3> QED BY <3>2 DEF h
  <2>2. (k \div 2 - 1) + 1 = k \div 2
    BY <1>5
  <2> HIDE DEF k
  <2> QED BY <1>5, <2>1, <2>2
<1>7. lower # {} /\ lower # cell
  <2>1. Cardinality({}) = 0
    BY FS_EmptySet
  <2> HIDE DEF lower
  <2>2. lower # {}
    BY <1>5, <1>6, <2>1
  <2>3. lower # cell
    BY <1>5, <1>6
  <2> QED BY <2>2, <2>3
<1> HIDE DEF lower, k
<1>8. border \in SUBSET lower
  OBVIOUS
<1>9. graph.linked \cap (s.a \X s.b) = {}
  <2>1. SUFFICES ASSUME NEW e \in s.a, NEW f \in s.b, <<e, f>> \in graph.linked PROVE FALSE
    OBVIOUS
  <2>2. e \in lower /\ e \notin border /\ f \in cell \ lower
    OBVIOUS
  <2>3. f \in Near(graph, e)
    <3>1. f \in E /\ DOMAIN graph.at = E
      BY <2>2 DEF IsGraph
    <3> QED BY <2>1, <3>1 DEF Near
  <2> QED BY <2>2, <2>3
<1> HIDE DEF border
<1>10. /\ s.a = lower \ border /\ s.b = cell \ lower /\ s.separator = border
  OBVIOUS
<1> HIDE DEF s
<1>11. Splits(graph, cell, s)
  <2>1. PICK x \in lower, y \in cell \ lower : x \in cell
    BY <1>6, <1>7
  <2> QED BY <1>6, <1>8, <1>9, <1>10, <2>1 DEF Splits
<1> QED BY <1>1, <1>11

Halves(cell) == [a : SUBSET cell, b : SUBSET cell, separator : SUBSET cell]

\* A quarter of the cell at least lies on either side.
Quartered(graph, cell) ==
  {s \in Halves(cell) : /\ Splits(graph, cell, s)
                       /\ Cardinality(s.a) >= Cardinality(cell) \div 4 /\ Cardinality(s.b) >= Cardinality(cell) \div 4}

\* A cut between the two outer quarters of a ranking leaves one on either side.
LEMMA OuterQuarters ==
  ASSUME NEW E, NEW graph, IsGraph(graph, E), NEW cell \in SUBSET E, NEW value \in [cell -> Int], NEW limit,
         NEW q, q = Cardinality(cell) \div 4, q # 0,
         NEW order, order = Ranking(cell, value),
         NEW found, found = FlowSplit(graph, cell, Range(SubSeq(order, 1, q)),
                                      Range(SubSeq(order, Len(order) - q + 1, Len(order))), limit)
  PROVE  found = {} \/ \E s \in Quartered(graph, cell) : found = {s}
<1> DEFINE k == Cardinality(cell)
           sources == Range(SubSeq(order, 1, q))
           sinks == Range(SubSeq(order, Len(order) - q + 1, Len(order)))
<1>1. IsFiniteSet(cell) /\ cell \in SUBSET Int /\ k \in Nat
  BY CellIs
<1>2. Lists(order, cell) /\ Len(order) = k
  <2>1. Lists(order, cell)
    BY <1>1, Ranked
  <2> QED BY <2>1 DEF Lists
<1>3. q \in Nat /\ 1 <= q /\ q <= k
  BY <1>1
<1>4. sources \subseteq cell /\ Cardinality(sources) = q
  <2> DEFINE from == 1
  <2>1. from \in Nat /\ 1 <= from /\ from <= q + 1 /\ q <= Cardinality(cell)
    BY <1>3
  <2> HIDE DEF from, k
  <2>2. Range(SubSeq(order, from, q)) \subseteq cell /\ Cardinality(Range(SubSeq(order, from, q))) = (q - from) + 1
    BY <1>2, <1>3, <2>1, Stretches
  <2>3. sources = Range(SubSeq(order, from, q))
    BY DEF from
  <2> HIDE DEF sources
  <2>4. (q - from) + 1 = q
    BY <1>3 DEF from
  <2> QED BY <2>2, <2>3, <2>4
<1>5. sinks \subseteq cell /\ Cardinality(sinks) = q
  <2> HIDE DEF k
  <2>1. k - q + 1 \in Nat /\ 1 <= k - q + 1 /\ k - q + 1 <= k + 1 /\ k <= k
    BY <1>1, <1>3
  <2> DEFINE from == k - q + 1
  <2> HIDE DEF from
  <2>2. Range(SubSeq(order, from, k)) \subseteq cell /\ Cardinality(Range(SubSeq(order, from, k))) = (k - from) + 1
    BY <1>1, <1>2, <2>1, Stretches DEF from, k
  <2>3. sinks = Range(SubSeq(order, from, k))
    BY <1>2 DEF from
  <2> HIDE DEF sinks
  <2>4. (k - from) + 1 = q
    BY <1>1, <1>3 DEF from
  <2> QED BY <2>2, <2>3, <2>4
<1>6. found = FlowSplit(graph, cell, sources, sinks, limit)
  OBVIOUS
<1> HIDE DEF sources, sinks
<1>7. sources # {} /\ sinks # {}
  BY <1>3, <1>4, <1>5, FS_EmptySet
<1>8. \/ found = {}
      \/ \E s \in [a : SUBSET cell, b : SUBSET cell, separator : SUBSET cell] :
           /\ found = {s}
           /\ Splits(graph, cell, s) /\ sources \subseteq s.a /\ sinks \subseteq s.b
  <2>1. sources \in SUBSET cell /\ sinks \in SUBSET cell
    BY <1>4, <1>5
  <2>2. \/ FlowSplit(graph, cell, sources, sinks, limit) = {}
        \/ \E s \in [a : SUBSET cell, b : SUBSET cell, separator : SUBSET cell] :
             /\ FlowSplit(graph, cell, sources, sinks, limit) = {s}
             /\ Splits(graph, cell, s) /\ sources \subseteq s.a /\ sinks \subseteq s.b
    BY <1>7, <2>1, FlowSplits
  <2> QED BY <1>6, <2>2
<1>9. ASSUME NEW s \in [a : SUBSET cell, b : SUBSET cell, separator : SUBSET cell],
             Splits(graph, cell, s), sources \subseteq s.a, sinks \subseteq s.b
      PROVE  s \in Quartered(graph, cell)
  <2>1. /\ IsFiniteSet(s.a) /\ Cardinality(s.a) \in Nat /\ IsFiniteSet(s.b) /\ Cardinality(s.b) \in Nat
        /\ sources \in SUBSET s.a /\ sinks \in SUBSET s.b
    BY <1>1, <1>9, FS_Subset, FS_CardinalityType
  <2>2. Cardinality(sources) <= Cardinality(s.a) /\ Cardinality(sinks) <= Cardinality(s.b)
    BY <2>1, FS_Subset
  <2>3. Cardinality(s.a) >= q /\ Cardinality(s.b) >= q
    BY <1>3, <1>4, <1>5, <2>1, <2>2
  <2> QED BY <1>9, <2>3 DEF Quartered, Halves
<1> QED BY <1>8, <1>9

\* The best of four directions, if any splits the cell.
LEMMA InertialSplits ==
  ASSUME NEW E, NEW graph, IsGraph(graph, E), NEW cell \in SUBSET E
  PROVE  InertialFlowSplit(graph, cell) = {} \/ \E s \in Quartered(graph, cell) : InertialFlowSplit(graph, cell) = {s}
<1> DEFINE quarter == Cardinality(cell) \div 4
           value(d) == [e \in cell |-> d[1] * graph.at[e][1] + d[2] * graph.at[e][2]]
           found(best, d) ==
             FlowSplit(graph, cell, Range(SubSeq(Ranking(cell, value(d)), 1, quarter)),
                       Range(SubSeq(Ranking(cell, value(d)), Len(Ranking(cell, value(d))) - quarter + 1, Len(Ranking(cell, value(d))))),
                       IF best = {} THEN Cardinality(cell) + 1 ELSE Cardinality(One(best).separator))
           try(best, d) == IF found(best, d) = {} THEN best ELSE found(best, d)
           D == {{}} \cup {{s} : s \in Quartered(graph, cell)}
           next == [p \in D \X (1..4) |-> try(p[1], Directions[p[2]])]
           Is(f) == f = [s \in SUBSET (1..4) |-> IF s = {} THEN {} ELSE try(f[s \ {Max(s)}], Directions[Max(s)])]
           iter == CHOOSE f : Is(f)
<1>1. DOMAIN Directions = 1..4 /\ \A i \in 1..4 : Directions[i][1] \in Int /\ Directions[i][2] \in Int
  BY DEF Directions
<1>2. InertialFlowSplit(graph, cell) =
        IF quarter = 0 \/ 2 * quarter >= Cardinality(cell) THEN {} ELSE FoldLeft(LAMBDA best, d : try(best, d), {}, Directions)
  BY Zenon DEF InertialFlowSplit
<1>3. FoldLeft(LAMBDA best, d : try(best, d), {}, Directions) = iter[DOMAIN Directions]
  <2> HIDE DEF try
  <2>1. FoldLeft(LAMBDA best, d : try(best, d), {}, Directions) =
          (CHOOSE f : f = [s \in SUBSET DOMAIN Directions |-> IF s = {} THEN {} ELSE try(f[s \ {Max(s)}], Directions[Max(s)])])[DOMAIN Directions]
    BY Zenon DEF FoldLeft, MapThenFoldSet
  <2> HIDE DEF Directions
  <2>2. iter[DOMAIN Directions] =
          (CHOOSE f : f = [s \in SUBSET DOMAIN Directions |-> IF s = {} THEN {} ELSE try(f[s \ {Max(s)}], Directions[Max(s)])])[DOMAIN Directions]
    BY <1>1, Zenon
  <2> QED BY <2>1, <2>2, Zenon
<1>4. SUFFICES ASSUME quarter # 0 PROVE iter[1..4] \in D
  <2> HIDE DEF iter, try, quarter
  <2>1. ASSUME iter[1..4] \in D PROVE iter[1..4] = {} \/ \E s \in Quartered(graph, cell) : iter[1..4] = {s}
    BY <2>1
  <2> HIDE DEF D
  <2> QED BY <1>1, <1>2, <1>3, <2>1
<1>5. ASSUME NEW best \in D, NEW i \in 1..4 PROVE try(best, Directions[i]) \in D
  <2> DEFINE d == Directions[i]
             order == Ranking(cell, value(d))
             limit == IF best = {} THEN Cardinality(cell) + 1 ELSE Cardinality(One(best).separator)
  <2>1. value(d) \in [cell -> Int]
    <3>1. \A e \in cell : graph.at[e][1] \in Int /\ graph.at[e][2] \in Int
      BY DEF IsGraph
    <3>2. d[1] \in Int /\ d[2] \in Int
      BY <1>1
    <3> HIDE DEF d
    <3> QED BY <3>1, <3>2
  <2>2. found(best, d) = FlowSplit(graph, cell, Range(SubSeq(order, 1, quarter)),
                                   Range(SubSeq(order, Len(order) - quarter + 1, Len(order))), limit)
    BY Zenon
  <2> HIDE DEF found
  <2>3. found(best, d) = {} \/ \E s \in Quartered(graph, cell) : found(best, d) = {s}
    <3> HIDE DEF value, d, limit
    <3>1. PICK qq : qq = quarter
      OBVIOUS
    <3>2. PICK oo : oo = order
      OBVIOUS
    <3>3. found(best, d) = FlowSplit(graph, cell, Range(SubSeq(oo, 1, qq)), Range(SubSeq(oo, Len(oo) - qq + 1, Len(oo))), limit)
      BY <2>2, <3>1, <3>2, Zenon
    <3>4. qq # 0 /\ qq = Cardinality(cell) \div 4 /\ oo = Ranking(cell, value(d))
      BY <1>4, <3>1, <3>2
    <3> HIDE DEF quarter
    <3> QED BY <2>1, <3>3, <3>4, OuterQuarters
  <2> HIDE DEF d
  <2>4. found(best, d) # {} => found(best, d) \in D
    BY <2>3
  <2> HIDE DEF D
  <2> QED BY <2>4 DEF d
<1> HIDE DEF try
<1>6. \E f : Is(f)
  <2>1. next \in [D \X (1..4) -> D]
    <3>1. \A p \in D \X (1..4) : try(p[1], Directions[p[2]]) \in D
      <4>1. \A p \in D \X (1..4) : p[1] \in D /\ p[2] \in 1..4
        OBVIOUS
      <4> HIDE DEF D
      <4> QED BY <1>5, <4>1
    <3> HIDE DEF D
    <3> QED BY <3>1
  <2>2. {} \in D /\ 4 \in Nat
    OBVIOUS
  <2> HIDE DEF D, next
  <2>3. PICK f : /\ f \in [SUBSET (1..4) -> D]
                 /\ f = [s \in SUBSET (1..4) |-> IF s = {} THEN {} ELSE next[<<f[s \ {Max(s)}], Max(s)>>]]
    <3>1. PICK n \in Nat : n = 4
      BY <2>2
    <3>2. \E f : IsFold(f, n, D, {}, next)
      BY <2>1, <2>2, <3>1, Folding
    <3> QED BY <3>1, <3>2, Zenon DEF IsFold
  <2>4. \A s \in SUBSET (1..4) : f[s] = IF s = {} THEN {} ELSE try(f[s \ {Max(s)}], Directions[Max(s)])
    <3>1. SUFFICES ASSUME NEW s \in SUBSET (1..4), s # {} PROVE f[s] = try(f[s \ {Max(s)}], Directions[Max(s)])
      BY <2>3
    <3>2. PICK m : m = Max(s)
      OBVIOUS
    <3>3. m \in 1..4
      BY <2>2, <3>1, <3>2, MaxIsGreatest
    <3>4. f[s \ {m}] \in D
      BY <2>3
    <3>5. f[s] = next[<<f[s \ {m}], m>>]
      BY <2>3, <3>1, <3>2
    <3>6. next[<<f[s \ {m}], m>>] = try(f[s \ {m}], Directions[m])
      BY <3>3, <3>4 DEF next
    <3> QED BY <3>2, <3>5, <3>6
  <2>5. f = [s \in SUBSET (1..4) |-> f[s]]
    BY <2>3
  <2>6. Is(f)
    BY <2>4, <2>5, Zenon
  <2> QED BY <2>6
<1>7. Is(iter)
  BY <1>6, Zenon
<1> HIDE DEF iter, D
<1> DEFINE P == {s \in SUBSET (1..4) : iter[s] \in D}
<1>8. {} \in P
  <2>1. iter[{}] = {} /\ {} \in D
    BY <1>7 DEF D
  <2> QED BY <2>1
<1>9. ASSUME NEW s \in SUBSET (1..4), s # {}, s \ {Max(s)} \in P PROVE s \in P
  <2>1. iter[s] = try(iter[s \ {Max(s)}], Directions[Max(s)])
    BY <1>7, <1>9
  <2>2. Max(s) \in 1..4
    <3>1. 4 \in Nat
      OBVIOUS
    <3> QED BY <1>9, <3>1, MaxIsGreatest
  <2>3. iter[s \ {Max(s)}] \in D
    BY <1>9
  <2>4. try(iter[s \ {Max(s)}], Directions[Max(s)]) \in D
    BY <1>5, <2>2, <2>3
  <2> QED BY <2>1, <2>4
<1>10. SUBSET (1..4) \subseteq P
  <2>1. 4 \in Nat
    OBVIOUS
  <2> HIDE DEF P
  <2> QED BY <1>8, <1>9, <2>1, FoldInduction
<1> QED BY <1>10

\* Whatever splits it, a cell of several states falls into sides.
LEMMA CellSplits ==
  ASSUME NEW E, NEW graph, IsGraph(graph, E), NEW cell \in SUBSET E, Cardinality(cell) > 1
  PROVE  /\ Splits(graph, cell, SplitOf(graph, cell))
         /\ \/ InertialFlowSplit(graph, cell) = {}
            \/ SplitOf(graph, cell) \in Quartered(graph, cell)
<1> DEFINE flow == InertialFlowSplit(graph, cell)
<1>1. SplitOf(graph, cell) = IF flow = {} THEN CoordinateSplit(graph, cell) ELSE One(flow)
  BY Zenon DEF SplitOf
<1>2. flow = {} \/ \E s \in Quartered(graph, cell) : flow = {s}
  BY InertialSplits
<1> HIDE DEF flow
<1>3. CASE flow = {}
  BY <1>1, <1>3, CoordinateSplits DEF flow
<1>4. CASE flow # {}
  <2>1. PICK s \in Quartered(graph, cell) : flow = {s}
    BY <1>2, <1>4
  <2>2. One(flow) = s
    <3>1. \A x \in {s} : x = s
      OBVIOUS
    <3>2. One({s}) \in {s}
      BY Zenon DEF One
    <3> QED BY <2>1, <3>1, <3>2
  <2>3. SplitOf(graph, cell) = s
    BY <1>1, <1>4, <2>2
  <2>4. Splits(graph, cell, s)
    BY DEF Quartered
  <2> QED BY <2>3, <2>4
<1> QED BY <1>3, <1>4

\* Sets of states, none of them empty, that have none in common and make up a cell.
Apart(parts, cell) ==
  /\ IsFiniteSet(parts) /\ parts \in SUBSET (SUBSET cell)
  /\ \A p \in parts : p # {} /\ IsFiniteSet(p) /\ Cardinality(p) \in Nat /\ p \in SUBSET Nat /\ Min(p) \in p
  /\ \A p, q \in parts : p # q => p \cap q = {}
  /\ \A x \in cell : \E p \in parts : x \in p

\* The components of a cell are.
LEMMA ComponentsApart ==
  ASSUME NEW E, NEW graph, IsGraph(graph, E), NEW cell \in SUBSET E,
         NEW parts, parts = {ReachedIn(graph, cell, {e}) : e \in cell}
  PROVE  Apart(parts, cell)
<1>1. IsFiniteSet(cell) /\ cell \in SUBSET Nat
  BY CellIs
<1>2. ASSUME NEW e \in cell
      PROVE  e \in ReachedIn(graph, cell, {e}) /\ ReachedIn(graph, cell, {e}) \in SUBSET cell
  <2>1. {e} \in SUBSET cell
    OBVIOUS
  <2>2. {e} \subseteq ReachedIn(graph, cell, {e}) /\ KeepsIn(graph, cell, ReachedIn(graph, cell, {e}))
    BY <2>1, Reaching
  <2> QED BY <2>2 DEF KeepsIn
<1>3. \A p \in parts : \E e \in cell : p = ReachedIn(graph, cell, {e})
  OBVIOUS
<1>4. parts \in SUBSET (SUBSET cell)
  BY <1>2, <1>3, Zenon
<1>5. IsFiniteSet(parts)
  <2>1. IsFiniteSet(SUBSET cell)
    BY <1>1, FS_SUBSET
  <2> QED BY <1>4, <2>1, FS_Subset
<1>6. ASSUME NEW p \in parts PROVE p # {} /\ IsFiniteSet(p) /\ Cardinality(p) \in Nat /\ p \in SUBSET Nat /\ Min(p) \in p
  <2>1. PICK e \in cell : p = ReachedIn(graph, cell, {e})
    BY <1>3
  <2>2. e \in p /\ p \in SUBSET cell
    BY <1>2, <2>1
  <2>3. IsFiniteSet(p) /\ Cardinality(p) \in Nat
    BY <1>1, <2>2, FS_Subset, FS_CardinalityType
  <2>4. p \in SUBSET Nat /\ p # {}
    BY <1>1, <2>2
  <2> QED BY <2>3, <2>4, MinIsLeast
<1>0. ASSUME NEW e \in cell, NEW x \in ReachedIn(graph, cell, {e})
      PROVE  ReachedIn(graph, cell, {x}) = ReachedIn(graph, cell, {e})
  BY Components
<1>7. ASSUME NEW p \in parts, NEW q \in parts, p # q PROVE p \cap q = {}
  <2>1. PICK d \in cell, e \in cell : p = ReachedIn(graph, cell, {d}) /\ q = ReachedIn(graph, cell, {e})
    BY <1>3
  <2>2. SUFFICES ASSUME NEW x \in p, x \in q PROVE FALSE
    OBVIOUS
  <2>3. x \in ReachedIn(graph, cell, {d}) /\ x \in ReachedIn(graph, cell, {e})
    BY <2>1, <2>2
  <2>4. ReachedIn(graph, cell, {x}) = p /\ ReachedIn(graph, cell, {x}) = q
    BY <1>0, <2>1, <2>3
  <2> QED BY <1>7, <2>4
<1>8. \A x \in cell : \E p \in parts : x \in p
  BY <1>2
<1> QED BY <1>4, <1>5, <1>6, <1>7, <1>8 DEF Apart

BySize(parts) ==
  {p \in parts \X parts : Cardinality(p[1]) > Cardinality(p[2]) \/ (Cardinality(p[1]) = Cardinality(p[2]) /\ Min(p[1]) < Min(p[2]))}

\* Whole components, if there are several.
LEMMA ComponentsDivide ==
  ASSUME NEW E, NEW graph, IsGraph(graph, E), NEW cell \in SUBSET E
  PROVE  SplitComponents(graph, cell) = {} \/ \E two : SplitComponents(graph, cell) = {two} /\ Divides(two, cell)
<1> DEFINE parts == {ReachedIn(graph, cell, {e}) : e \in cell}
           before(p, q) == Cardinality(p) > Cardinality(q) \/ (Cardinality(p) = Cardinality(q) /\ Min(p) < Min(q))
           order == Arranged(parts, before)
           k == Cardinality(parts)
<1>0. PICK set : set = parts
  OBVIOUS
<1>1. /\ IsFiniteSet(parts) /\ parts \in SUBSET (SUBSET cell)
      /\ \A p \in parts : p # {} /\ IsFiniteSet(p) /\ Cardinality(p) \in Nat /\ p \in SUBSET Nat /\ Min(p) \in p
      /\ \A p, q \in parts : p # q => p \cap q = {}
      /\ \A x \in cell : \E p \in parts : x \in p
  <2>1. Apart(set, cell)
    BY <1>0, ComponentsApart
  <2> HIDE DEF parts
  <2> QED BY <1>0, <2>1 DEF Apart
<1>2. IsFiniteSet(cell) /\ k \in Nat
  <2> HIDE DEF parts
  <2> QED BY <1>1, CellIs, FS_CardinalityType
<1>3. SplitComponents(graph, cell) = IF k < 2 THEN {} ELSE {FoldLeft(Lighter, <<{}, {}>>, order)}
  BY Zenon DEF SplitComponents, FoldLeft, MapThenFoldSet, Lighter, Arranged
<1> HIDE DEF parts
<1>4. Orders(BySize(parts), parts)
  <2>1. \A p \in parts : Cardinality(p) \in Int /\ Min(p) \in Int
    BY <1>1
  <2>2. \A p, q \in parts : p # q => Min(p) # Min(q)
    BY <1>1
  <2>3. \A p, q \in parts : <<p, q>> \in BySize(parts) <=> before(p, q)
    BY DEF BySize
  <2>4. \A p, q \in parts : p # q => before(p, q) \/ before(q, p)
    BY <2>1, <2>2
  <2>5. \A p \in parts : ~before(p, p)
    BY <2>1
  <2>6. \A p, q, r \in parts : before(p, q) /\ before(q, r) => before(p, r)
    BY <2>1
  <2> HIDE DEF before
  <2> QED BY <2>3, <2>4, <2>5, <2>6 DEF Orders
<1>5. order = Listed(parts, BySize(parts))
  <2>1. ASSUME NEW x \in parts PROVE {y \in parts : <<y, x>> \in BySize(parts)} = {y \in parts : before(y, x)}
    BY DEF BySize
  <2>2. \A n \in 1..Cardinality(parts) : (CHOOSE x \in parts : Cardinality({y \in parts : <<y, x>> \in BySize(parts)}) = n - 1)
                                       = (CHOOSE x \in parts : Cardinality({y \in parts : before(y, x)}) = n - 1)
    <3> HIDE DEF before
    <3> QED BY <2>1
  <2> QED BY <2>2, Zenon DEF Arranged, Listed
<1> HIDE DEF order
<1>6. Lists(order, parts)
  BY <1>1, <1>4, <1>5, Arranging
<1>7. CASE k < 2
  BY <1>3, <1>7
<1>8. CASE ~(k < 2)
  <2>1. order \in [1..k -> SUBSET cell]
    BY <1>1, <1>6 DEF Lists
  <2>2. \A n \in 1..k : order[n] \in parts
    BY <1>6 DEF Lists
  <2>3. \A m, n \in 1..k : m # n => order[m] \cap order[n] = {}
    BY <1>1, <1>6, <2>2 DEF Lists
  <2>4. \A p \in parts : \E n \in 1..k : order[n] = p
    BY <1>6, Zenon DEF Lists, Range
  <2>5. \A x \in cell : \E n \in 1..k : x \in order[n]
    BY <1>1, <2>4
  <2>6. PICK two : two = FoldLeft(Lighter, <<{}, {}>>, order)
    OBVIOUS
  <2>7. Divides(FoldLeft(Lighter, <<{}, {}>>, order), cell)
    <3>1. k >= 2 /\ \A n \in 1..k : order[n] # {}
      BY <1>1, <1>2, <1>8, <2>2
    <3> HIDE DEF k
    <3> QED BY <1>2, <2>1, <2>3, <2>5, <3>1, GroupsDivide
  <2> QED BY <1>3, <1>8, <2>6, <2>7
<1> QED BY <1>7, <1>8

\* Whichever way it is parted, a cell of several states falls into smaller parts.
LEMMA PartsDivide ==
  ASSUME NEW E, NEW graph, IsGraph(graph, E), NEW cell \in SUBSET E, Cardinality(cell) > 1
  PROVE  \E parts : PartsOf(graph, cell) = {parts} /\ Divides(parts, cell)
<1>1. CASE SplitComponents(graph, cell) # {}
  <2>1. PartsOf(graph, cell) = SplitComponents(graph, cell)
    BY <1>1, Zenon DEF PartsOf
  <2> QED BY <1>1, <2>1, ComponentsDivide
<1>2. CASE SplitComponents(graph, cell) = {}
  <2>1. PICK s : s = SplitOf(graph, cell)
    OBVIOUS
  <2>2. Splits(graph, cell, s)
    BY <2>1, CellSplits
  <2>3. PICK a, b, c : a = s.a /\ b = s.b /\ c = s.separator
    OBVIOUS
  <2>4. PICK parts : parts = <<a, b, c>>
    OBVIOUS
  <2>5. PartsOf(graph, cell) = {parts}
    <3>1. PartsOf(graph, cell) = {<<r.a, r.b, r.separator>> : r \in {s}}
      BY <1>2, <2>1, Zenon DEF PartsOf
    <3> QED BY <2>3, <2>4, <3>1
  <2>6. a \in SUBSET cell /\ b \in SUBSET cell /\ c \in SUBSET cell
    BY <2>2, <2>3 DEF Splits
  <2>7. /\ Len(parts) = 3 /\ parts[1] = a /\ parts[2] = b /\ parts[3] = c
        /\ parts \in Seq(SUBSET cell) /\ parts \in [1..3 -> SUBSET cell]
    BY <2>4, <2>6
  <2>8. \A n \in 1..3 : n = 1 \/ n = 2 \/ n = 3
    OBVIOUS
  <2>9. \A x \in cell : \E n \in 1..3 : x \in parts[n]
    <3>1. 1 \in 1..3 /\ 2 \in 1..3 /\ 3 \in 1..3
      OBVIOUS
    <3>2. \A x \in cell : x \in a \/ x \in b \/ x \in c
      BY <2>2, <2>3 DEF Splits
    <3> QED BY <2>7, <3>1, <3>2
  <2>10. \A n \in 1..3 : parts[n] # cell
    BY <2>2, <2>3, <2>7, <2>8 DEF Splits
  <2>11. \A m, n \in 1..3 : m # n => parts[m] \cap parts[n] = {}
    <3>1. a \cap b = {} /\ b \cap a = {} /\ a \cap c = {} /\ c \cap a = {} /\ b \cap c = {} /\ c \cap b = {}
      BY <2>2, <2>3 DEF Splits
    <3>2. SUFFICES ASSUME NEW m \in 1..3, NEW n \in 1..3, m # n PROVE parts[m] \cap parts[n] = {}
      OBVIOUS
    <3>3. (m = 1 \/ m = 2 \/ m = 3) /\ (n = 1 \/ n = 2 \/ n = 3)
      BY <2>8
    <3> QED BY <2>7, <3>1, <3>2, <3>3
  <2>12. Divides(parts, cell)
    BY <2>7, <2>9, <2>10, <2>11 DEF Divides
  <2> QED BY <2>5, <2>12
<1> QED BY <1>1, <1>2

\* What a cell is listed as, given the lists of its parts.
Ordered(graph, f, part) ==
  IF Cardinality(part) <= LeafStates THEN MinimumDegreeOrder(graph, part)
  ELSE One({FlattenSeq([n \in DOMAIN parts |-> f[parts[n]]]) : parts \in PartsOf(graph, part)})

Agree(f, g, cell, part) == \A smaller \in SUBSET cell : Cardinality(smaller) < Cardinality(part) => f[smaller] = g[smaller]

ListsBelow(f, cell, part) == \A smaller \in SUBSET cell : Cardinality(smaller) < Cardinality(part) => Lists(f[smaller], smaller)

OrderedBelow(graph, cell, part) ==
  /\ \A f \in [SUBSET cell -> Seq(cell)] : Ordered(graph, f, part) \in Seq(cell)
  /\ \A f, g : Agree(f, g, cell, part) => Ordered(graph, f, part) = Ordered(graph, g, part)
  /\ \A f : ListsBelow(f, cell, part) => Lists(Ordered(graph, f, part), part)

\* It depends on the lists of smaller cells alone, and is a list if they are.
LEMMA OrderedBy ==
  ASSUME NEW E, NEW graph, IsGraph(graph, E), NEW cell \in SUBSET E, NEW part \in SUBSET cell
  PROVE  OrderedBelow(graph, cell, part)
<1>1. part \in SUBSET E /\ IsFiniteSet(part) /\ Cardinality(part) \in Nat /\ IsFiniteSet(cell) /\ LeafStates \in Nat \ {0}
  BY CellIs, DissectionAssumption
<1>2. CASE Cardinality(part) <= LeafStates
  <2>1. \A f : Ordered(graph, f, part) = MinimumDegreeOrder(graph, part)
    BY <1>2, Zenon DEF Ordered
  <2>2. Lists(MinimumDegreeOrder(graph, part), part)
    BY <1>1, MinimumDegreeLists
  <2>3. MinimumDegreeOrder(graph, part) \in Seq(cell)
    BY <2>2 DEF Lists
  <2> QED BY <2>1, <2>2, <2>3 DEF OrderedBelow
<1>3. CASE ~(Cardinality(part) <= LeafStates)
  <2>1. Cardinality(part) > 1
    BY <1>1, <1>3
  <2>2. PICK parts : PartsOf(graph, part) = {parts} /\ Divides(parts, part)
    BY <1>1, <2>1, PartsDivide
  <2> DEFINE lists(f) == [n \in DOMAIN parts |-> f[parts[n]]]
  <2>3. ASSUME NEW f PROVE Ordered(graph, f, part) = FlattenSeq(lists(f))
    <3>1. PICK flat : flat = FlattenSeq(lists(f))
      OBVIOUS
    <3>2. Ordered(graph, f, part) = One({FlattenSeq([n \in DOMAIN p |-> f[p[n]]]) : p \in PartsOf(graph, part)})
      BY <1>3, Zenon DEF Ordered
    <3>3. {FlattenSeq([n \in DOMAIN p |-> f[p[n]]]) : p \in PartsOf(graph, part)} = {flat}
      BY <2>2, <3>1
    <3>4. One({flat}) \in {flat}
      BY Zenon DEF One
    <3> QED BY <3>1, <3>2, <3>3, <3>4
  <2>4. DOMAIN parts = 1..Len(parts) /\ Len(parts) \in {2, 3}
    BY <2>2 DEF Divides
  <2>5. ASSUME NEW n \in 1..Len(parts)
        PROVE  parts[n] \in SUBSET cell /\ parts[n] \in SUBSET part /\ Cardinality(parts[n]) < Cardinality(part)
    <3>1. parts[n] \in SUBSET part /\ parts[n] # part
      BY <2>2 DEF Divides
    <3>2. Cardinality(parts[n]) <= Cardinality(part) /\ Cardinality(parts[n]) # Cardinality(part) /\ Cardinality(parts[n]) \in Nat
      BY <1>1, <3>1, FS_Subset, FS_CardinalityType
    <3> QED BY <1>1, <3>1, <3>2
  <2>6. ASSUME NEW f \in [SUBSET cell -> Seq(cell)] PROVE lists(f) \in [1..Len(parts) -> Seq(cell)]
    BY <2>4, <2>5
  <2>7. ASSUME NEW f \in [SUBSET cell -> Seq(cell)] PROVE Ordered(graph, f, part) \in Seq(cell)
    <3>1. lists(f) \in Seq(Seq(cell)) /\ Len(lists(f)) = Len(parts) /\ Len(lists(f)) > 0
      <4>0. PICK k : k = Len(parts)
        OBVIOUS
      <4>1. k = Len(parts) /\ k \in Nat /\ k > 0
        BY <2>4, <4>0
      <4>2. lists(f) \in [1..k -> Seq(cell)]
        BY <2>6, <4>1
      <4> HIDE DEF lists
      <4> QED BY <4>1, <4>2
    <3> HIDE DEF lists
    <3>2. FlattenSeq(lists(f)) \in Seq(cell)
      <4>1. PICK p : p = lists(f)
        OBVIOUS
      <4>2. Len(p) \in 1..Len(p) /\ p \in Seq(Seq(cell)) /\ Len(p) > 0
        BY <3>1, <4>1
      <4>3. \E g : /\ FlattenSeq(p) = g[Len(p)] /\ g[1] = p[1]
                   /\ \A k \in 2..Len(p) : g[k] = g[k - 1] \o p[k]
                   /\ \A k \in 1..Len(p) : g[k] \in Seq(cell)
        BY <4>2, FlattenSteps
      <4> QED BY <4>1, <4>2, <4>3
    <3> QED BY <2>3, <3>2
  <2>8. ASSUME NEW f, NEW g, Agree(f, g, cell, part)
        PROVE  Ordered(graph, f, part) = Ordered(graph, g, part)
    <3>1. \A n \in 1..Len(parts) : f[parts[n]] = g[parts[n]]
      BY <2>5, <2>8 DEF Agree
    <3>2. lists(f) = lists(g)
      BY <2>4, <3>1
    <3> QED BY <2>3, <3>2
  <2>9. ASSUME NEW f, ListsBelow(f, cell, part)
        PROVE  Lists(Ordered(graph, f, part), part)
    <3>1. ASSUME NEW n \in 1..Len(parts) PROVE Lists(lists(f)[n], parts[n])
      BY <2>4, <2>5, <2>9 DEF ListsBelow
    <3>2. lists(f) \in [1..Len(parts) -> Seq(part)]
      <4>1. \A n \in 1..Len(parts) : lists(f)[n] \in Seq(part)
        <5>1. SUFFICES ASSUME NEW n \in 1..Len(parts) PROVE lists(f)[n] \in Seq(part)
          OBVIOUS
        <5>2. lists(f)[n] \in Seq(parts[n]) /\ parts[n] \in SUBSET part
          BY <2>5, <3>1 DEF Lists
        <5> HIDE DEF lists
        <5> QED BY <5>2
      <4>2. lists(f) = [n \in 1..Len(parts) |-> lists(f)[n]]
        BY <2>4
      <4> HIDE DEF lists
      <4> QED BY <4>1, <4>2
    <3> HIDE DEF lists
    <3>3. Lists(FlattenSeq(lists(f)), part)
      BY <1>1, <2>2, <3>1, <3>2, PartsListed
    <3> QED BY <2>3, <3>3
  <2> QED BY <2>7, <2>8, <2>9 DEF OrderedBelow
<1> QED BY <1>2, <1>3

\* The order of a cell names every state of it once.
LEMMA DissectLists ==
  ASSUME NEW E, NEW graph, IsGraph(graph, E), NEW cell \in SUBSET E
  PROVE  Lists(Dissect(graph, cell), cell)
<1>0. ASSUME NEW part \in SUBSET cell
      PROVE  /\ \A f \in [SUBSET cell -> Seq(cell)] : Ordered(graph, f, part) \in Seq(cell)
             /\ \A f, g : Agree(f, g, cell, part) => Ordered(graph, f, part) = Ordered(graph, g, part)
             /\ \A f : ListsBelow(f, cell, part) => Lists(Ordered(graph, f, part), part)
  <2>1. OrderedBelow(graph, cell, part)
    BY OrderedBy
  <2> QED BY <2>1 DEF OrderedBelow
<1> DEFINE D == [SUBSET cell -> Seq(cell)]
           start == [part \in SUBSET cell |-> << >>]
           K == Cardinality(cell) + 1
           next == [p \in (1..(K + 1)) \X D |-> [part \in SUBSET cell |-> Ordered(graph, p[2], part)]]
           Is(f) == f = [part \in SUBSET cell |-> Ordered(graph, f, part)]
           order == CHOOSE f : Is(f)
<1>1. IsFiniteSet(cell) /\ K \in Nat /\ K + 1 \in Nat
  BY CellIs
<1>2. ASSUME NEW part \in SUBSET cell PROVE IsFiniteSet(part) /\ Cardinality(part) \in Nat /\ Cardinality(part) < K
  <2>1. IsFiniteSet(part) /\ Cardinality(part) <= Cardinality(cell)
    BY <1>1, FS_Subset
  <2>2. Cardinality(part) \in Nat /\ Cardinality(cell) \in Nat
    BY <1>1, <2>1, FS_CardinalityType
  <2> QED BY <2>1, <2>2
<1>3. Dissect(graph, cell) = order[cell]
  BY Zenon DEF Dissect, Ordered
<1>4. \E f \in D : Is(f)
  <2>1. ASSUME NEW f \in D PROVE [part \in SUBSET cell |-> Ordered(graph, f, part)] \in D
    <3>1. \A part \in SUBSET cell : Ordered(graph, f, part) \in Seq(cell)
      BY <1>0
    <3> QED BY <3>1
  <2>2. start \in D
    OBVIOUS
  <2>3. next \in [(1..(K + 1)) \X D -> D]
    <3>1. \A p \in (1..(K + 1)) \X D : p[2] \in D
      OBVIOUS
    <3> HIDE DEF D
    <3> QED BY <2>1, <3>1
  <2>4. PICK h : Follows(h, K + 1, D, start, next)
    <3> HIDE DEF D, start, next, K
    <3> QED BY <1>1, <2>2, <2>3, Stepwise
  <2>5. h \in [0..(K + 1) -> D] /\ \A v \in 1..(K + 1) : h[v] = next[<<v, h[v - 1]>>]
    BY <2>4, Zenon DEF Follows
  <2>6. ASSUME NEW v \in 1..(K + 1)
        PROVE  /\ h[v] \in D /\ h[v - 1] \in D
               /\ \A part \in SUBSET cell : h[v][part] = Ordered(graph, h[v - 1], part)
    <3>1. h[v - 1] \in D /\ h[v] \in D
      <4>1. v - 1 \in 0..(K + 1) /\ v \in 0..(K + 1)
        BY <1>1
      <4> HIDE DEF D, K
      <4> QED BY <2>5, <4>1
    <3>2. next[<<v, h[v - 1]>>] = [part \in SUBSET cell |-> Ordered(graph, h[v - 1], part)]
      <4> HIDE DEF D, K
      <4> QED BY <3>1
    <3> HIDE DEF D, next, K
    <3> QED BY <2>5, <3>1, <3>2
  <2> DEFINE T == {n \in Nat : n <= K => \A part \in SUBSET cell : Cardinality(part) < n => h[n + 1][part] = h[n][part]}
  <2>7. 0 \in T
    BY <1>2
  <2>8. ASSUME NEW n \in Nat, n \in T PROVE n + 1 \in T
    <3>1. SUFFICES ASSUME n + 1 <= K, NEW part \in SUBSET cell, Cardinality(part) < n + 1
                   PROVE  h[n + 2][part] = h[n + 1][part]
      OBVIOUS
    <3>2. /\ n + 2 \in 1..(K + 1) /\ n + 1 \in 1..(K + 1) /\ (n + 2) - 1 = n + 1 /\ (n + 1) - 1 = n
          /\ Cardinality(part) \in Nat /\ n <= K
      BY <1>1, <1>2, <3>1
    <3>3. /\ h[n + 2][part] = Ordered(graph, h[n + 1], part)
          /\ h[n + 1][part] = Ordered(graph, h[n], part)
          /\ h[n + 1] \in D /\ h[n] \in D
      <4> HIDE DEF D, K
      <4>1. h[n + 2][part] = Ordered(graph, h[(n + 2) - 1], part)
        BY <2>6, <3>2
      <4>2. h[n + 1][part] = Ordered(graph, h[(n + 1) - 1], part) /\ h[(n + 1) - 1] \in D /\ h[n + 1] \in D
        BY <2>6, <3>2
      <4> QED BY <3>2, <4>1, <4>2
    <3>4. \A smaller \in SUBSET cell : Cardinality(smaller) < Cardinality(part) => h[n + 1][smaller] = h[n][smaller]
      <4>1. SUFFICES ASSUME NEW smaller \in SUBSET cell, Cardinality(smaller) < Cardinality(part)
                     PROVE  h[n + 1][smaller] = h[n][smaller]
        OBVIOUS
      <4>2. Cardinality(smaller) < n
        BY <1>2, <3>1, <4>1
      <4> HIDE DEF K
      <4> QED BY <2>8, <3>2, <4>2
    <3>5. Ordered(graph, h[n + 1], part) = Ordered(graph, h[n], part)
      <4>1. PICK f, g : f = h[n + 1] /\ g = h[n]
        OBVIOUS
      <4>2. Agree(f, g, cell, part)
        BY <3>4, <4>1 DEF Agree
      <4>3. Ordered(graph, f, part) = Ordered(graph, g, part)
        <5> HIDE DEF D, K, T, start, next, Is, order
        <5> QED BY <1>0, <4>2
      <4> QED BY <4>1, <4>3
    <3> QED BY <3>3, <3>5
  <2>9. K \in T
    <3> HIDE DEF T
    <3> QED BY <1>1, <2>7, <2>8, StepByStep
  <2>10. \A part \in SUBSET cell : h[K + 1][part] = h[K][part]
    BY <1>1, <1>2, <2>9
  <2>11. K + 1 \in 1..(K + 1) /\ (K + 1) - 1 = K
    BY <1>1
  <2>12. PICK f \in D : f = h[K]
    <3> HIDE DEF D, K
    <3> QED BY <2>6, <2>11
  <2>13. \A part \in SUBSET cell : f[part] = Ordered(graph, f, part)
    <3> HIDE DEF D, K
    <3> QED BY <2>6, <2>10, <2>11, <2>12
  <2>14. Is(f)
    <3>1. f = [part \in SUBSET cell |-> f[part]]
      BY <2>12
    <3> QED BY <2>13, <3>1, Zenon
  <2> QED BY <2>12, <2>14
<1>5. Is(order)
  BY <1>4, Zenon
<1> HIDE DEF order
<1> DEFINE T == {n \in Nat : \A part \in SUBSET cell : Cardinality(part) < n => Lists(order[part], part)}
<1>6. 0 \in T
  BY <1>2
<1>7. ASSUME NEW n \in Nat, n \in T PROVE n + 1 \in T
  <2>1. SUFFICES ASSUME NEW part \in SUBSET cell, Cardinality(part) < n + 1 PROVE Lists(order[part], part)
    OBVIOUS
  <2>2. ASSUME NEW smaller \in SUBSET cell, Cardinality(smaller) < Cardinality(part) PROVE Lists(order[smaller], smaller)
    BY <1>2, <1>7, <2>1, <2>2
  <2>3. Lists(Ordered(graph, order, part), part)
    <3>1. PICK f : f = order
      OBVIOUS
    <3>2. ListsBelow(f, cell, part)
      BY <2>2, <3>1 DEF ListsBelow
    <3>3. Lists(Ordered(graph, f, part), part)
      BY <1>0, <3>2
    <3> QED BY <3>1, <3>3
  <2>4. \A p \in SUBSET cell : order[p] = Ordered(graph, order, p)
    BY <1>5, Zenon
  <2> QED BY <2>3, <2>4
<1>8. K \in T
  <2> HIDE DEF T
  <2> QED BY <1>1, <1>6, <1>7, StepByStep
<1> QED BY <1>2, <1>3, <1>8

-----------------------------------------------------------------------------
(* Lists that a dataset is made of.                                        *)

\* The entries at some positions.
LEMMA Picking ==
  ASSUME NEW list, NEW positions \in SUBSET Int, IsFiniteSet(positions)
  PROVE  /\ IsList(Picked(list, positions)) /\ Len(Picked(list, positions)) = Cardinality(positions)
         /\ \A i \in 1..Cardinality(positions) : \E p \in positions : Picked(list, positions)[i] = list[p]
         /\ \A p \in positions : \E i \in 1..Cardinality(positions) : Picked(list, positions)[i] = list[p]
<1> DEFINE order == Sorted(positions)
           picked == Picked(list, positions)
           k == Cardinality(positions)
<1>1. Lists(order, positions) /\ k \in Nat
  BY Sorting, FS_CardinalityType
<1>2. DOMAIN order = 1..k /\ (\A i \in 1..k : order[i] \in positions) /\ \A p \in positions : \E i \in 1..k : order[i] = p
  <2>1. DOMAIN order = 1..k /\ Range(order) = positions
    BY <1>1 DEF Lists
  <2>2. \A p : p \in Range(order) <=> \E i \in DOMAIN order : order[i] = p
    BY Zenon DEF Range
  <2> HIDE DEF Range, order, k
  <2> QED BY <2>1, <2>2
<1>3. picked = [n \in DOMAIN order |-> list[order[n]]]
  BY Zenon DEF Picked
<1> HIDE DEF order, picked, k
<1>4. DOMAIN picked = 1..k /\ \A i \in 1..k : picked[i] = list[order[i]]
  BY <1>2, <1>3
<1>5. picked = [i \in 1..k |-> picked[i]]
  BY <1>2, <1>3
<1>6. IsList(picked) /\ Len(picked) = k
  BY <1>1, <1>4, <1>5, ListIs
<1>7. /\ \A i \in 1..k : \E p \in positions : picked[i] = list[p]
      /\ \A p \in positions : \E i \in 1..k : picked[i] = list[p]
  <2>1. ASSUME NEW i \in 1..k PROVE \E p \in positions : picked[i] = list[p]
    BY <1>2, <1>4
  <2>2. ASSUME NEW p \in positions PROVE \E i \in 1..k : picked[i] = list[p]
    <3>1. PICK i \in 1..k : order[i] = p
      BY <1>2
    <3> QED BY <1>4, <3>1
  <2> QED BY <2>1, <2>2
<1> QED BY <1>6, <1>7, Zenon DEF picked, k

\* The values of a function in the order of their ids.
LEMMA InOrderOfIds ==
  ASSUME NEW f, DOMAIN f \in SUBSET Int, IsFiniteSet(DOMAIN f)
  PROVE  /\ IsList(ById(f)) /\ Len(ById(f)) = Cardinality(DOMAIN f)
         /\ Len(Sorted(DOMAIN f)) = Cardinality(DOMAIN f) /\ Sorted(DOMAIN f) \in Seq(Int)
         /\ \A i \in 1..Len(ById(f)) : Sorted(DOMAIN f)[i] \in DOMAIN f /\ ById(f)[i] = f[Sorted(DOMAIN f)[i]]
<1> DEFINE ids == Sorted(DOMAIN f)
           k == Cardinality(DOMAIN f)
           list == ById(f)
<1>1. Lists(ids, DOMAIN f) /\ k \in Nat
  BY Sorting, FS_CardinalityType
<1>2. Len(ids) = k /\ ids \in Seq(Int) /\ \A i \in 1..k : ids[i] \in DOMAIN f
  BY <1>1 DEF Lists
<1>3. list = [n \in 1..k |-> f[ids[n]]]
  BY Zenon DEF ById
<1> HIDE DEF ids, k, list
<1>4. DOMAIN list = 1..k /\ list = [n \in 1..k |-> list[n]] /\ \A n \in 1..k : list[n] = f[ids[n]]
  BY <1>3
<1>5. IsList(list) /\ Len(list) = k
  BY <1>1, <1>4, ListIs
<1> QED BY <1>2, <1>4, <1>5 DEF ids, k, list

-----------------------------------------------------------------------------
(* The topology that is built from the objects of an extract.              *)

NodeType == [id : Int, place : Int \X Int]

\* The objects as far as the edges depend on them.
IsState(s) ==
  /\ DOMAIN s = DOMAIN NothingScanned
  /\ s.nodes \in Seq(NodeType)
  /\ DOMAIN s.ways \in SUBSET Int /\ IsFiniteSet(DOMAIN s.ways)
  /\ \A id \in DOMAIN s.ways : "nodes" \in DOMAIN s.ways[id] /\ IsList(s.ways[id].nodes)

IsTopology(t) ==
  /\ IsList(t.edges) /\ t.nodes \in Seq(Int) /\ t.places \in Seq(Int \X Int) /\ Len(t.nodes) = Len(t.places)
  /\ \A e \in 1..Len(t.edges) : t.edges[e].from \in 1..Len(t.places) /\ t.edges[e].to \in 1..Len(t.places)

\* Consecutive nodes of a way that the extract has.
LEMMA SegmentsAre ==
  ASSUME NEW w, IsList(w.nodes), NEW nodes
  PROVE  /\ IsList(Segments(w, nodes))
         /\ \A i \in 1..Len(Segments(w, nodes)) : Known(nodes, Segments(w, nodes)[i][1]) /\ Known(nodes, Segments(w, nodes)[i][2])
<1> DEFINE pairs == [n \in 1 .. Len(w.nodes) - 1 |-> <<w.nodes[n], w.nodes[n + 1]>>]
           drawn(s) == s[1] # s[2] /\ Known(nodes, s[1]) /\ Known(nodes, s[2])
           positions == {n \in DOMAIN pairs : drawn(pairs[n])}
<1>1. Segments(w, nodes) = Picked(pairs, positions)
  BY Zenon DEF Segments
<1>2. positions \in SUBSET Int /\ IsFiniteSet(positions)
  <2>1. Len(w.nodes) \in Nat
    BY IsListMeans
  <2>2. DOMAIN pairs = 1..(Len(w.nodes) - 1)
    OBVIOUS
  <2>3. IsFiniteSet(1..(Len(w.nodes) - 1)) /\ 1..(Len(w.nodes) - 1) \in SUBSET Int
    BY <2>1, FS_Interval
  <2>4. positions \in SUBSET (1..(Len(w.nodes) - 1))
    BY <2>2
  <2> HIDE DEF positions
  <2> QED BY <2>3, <2>4, FS_Subset
<1>3. \A p \in positions : Known(nodes, pairs[p][1]) /\ Known(nodes, pairs[p][2])
  <2> HIDE DEF pairs
  <2> QED OBVIOUS
<1> HIDE DEF pairs, positions
<1>4. /\ IsList(Picked(pairs, positions)) /\ Len(Picked(pairs, positions)) = Cardinality(positions)
      /\ \A i \in 1..Cardinality(positions) : \E p \in positions : Picked(pairs, positions)[i] = pairs[p]
  BY <1>2, Picking
<1> QED BY <1>1, <1>3, <1>4

\* The edges of a way run between nodes of the scan.
LEMMA EdgesOfWayAre ==
  ASSUME NEW scan, NEW w, IsList(w.nodes)
  PROVE  /\ IsList(EdgesOfWay(w, scan))
         /\ \A e \in Range(EdgesOfWay(w, scan)) : e.from \in DOMAIN scan.nodes /\ e.to \in DOMAIN scan.nodes
<1> DEFINE edge(from, to, modes, rule) ==
             IF modes = {} THEN << >>
             ELSE <<[from |-> IndexOf(scan.nodes, from), to |-> IndexOf(scan.nodes, to), way |-> w.id, modes |-> modes,
                     rule |-> rule, signal |-> to \in scan.signals, name |-> NameIndex(scan.ways, w.name),
                     junction |-> IF from \in DOMAIN scan.junctions THEN scan.junctions[from] ELSE None]>>
           both(s) == edge(s[1], s[2], w.forward, w.forwardRule) \o edge(s[2], s[1], w.reverse, w.reverseRule)
           segments == Segments(w, scan.nodes)
           lists == [n \in DOMAIN segments |-> both(segments[n])]
           Ends(e) == e.from \in DOMAIN scan.nodes /\ e.to \in DOMAIN scan.nodes
<1>1. EdgesOfWay(w, scan) = FlattenSeq(lists)
  BY Zenon DEF EdgesOfWay
<1>2. /\ IsList(segments)
      /\ \A i \in 1..Len(segments) : Known(scan.nodes, segments[i][1]) /\ Known(scan.nodes, segments[i][2])
  BY SegmentsAre
<1>3. ASSUME NEW from, NEW to, NEW modes, NEW rule, Known(scan.nodes, from), Known(scan.nodes, to)
      PROVE  \E S : edge(from, to, modes, rule) \in Seq(S) /\ \A e \in S : Ends(e)
  <2>1. PICK r : r = [from |-> IndexOf(scan.nodes, from), to |-> IndexOf(scan.nodes, to), way |-> w.id, modes |-> modes,
                     rule |-> rule, signal |-> to \in scan.signals, name |-> NameIndex(scan.ways, w.name),
                     junction |-> IF from \in DOMAIN scan.junctions THEN scan.junctions[from] ELSE None]
    OBVIOUS
  <2>2. edge(from, to, modes, rule) = IF modes = {} THEN << >> ELSE <<r>>
    BY <2>1, Zenon
  <2>3. r.from = IndexOf(scan.nodes, from) /\ r.to = IndexOf(scan.nodes, to)
    BY <2>1
  <2>4. \A id : Known(scan.nodes, id) => IndexOf(scan.nodes, id) \in DOMAIN scan.nodes
    BY Zenon DEF Known, IndexOf
  <2>5. edge(from, to, modes, rule) \in Seq({r})
    <3>1. PICK list : list = edge(from, to, modes, rule)
      OBVIOUS
    <3>2. list = IF modes = {} THEN << >> ELSE <<r>>
      BY <2>2, <3>1
    <3>3. << >> \in Seq({r}) /\ <<r>> \in Seq({r})
      OBVIOUS
    <3> HIDE DEF edge
    <3> QED BY <3>1, <3>2, <3>3
  <2>6. \A e \in {r} : Ends(e)
    BY <1>3, <2>3, <2>4
  <2> HIDE DEF edge, Ends
  <2> QED BY <2>5, <2>6
<1> HIDE DEF edge
<1>4. ASSUME NEW i \in 1..Len(segments) PROVE \E S : both(segments[i]) \in Seq(S) /\ \A e \in S : Ends(e)
  <2>1. PICK s : s = segments[i]
    OBVIOUS
  <2>2. Known(scan.nodes, s[1]) /\ Known(scan.nodes, s[2])
    BY <1>2, <2>1
  <2>3. PICK S : edge(s[1], s[2], w.forward, w.forwardRule) \in Seq(S) /\ \A e \in S : Ends(e)
    BY <1>3, <2>2
  <2>4. PICK T : edge(s[2], s[1], w.reverse, w.reverseRule) \in Seq(T) /\ \A e \in T : Ends(e)
    BY <1>3, <2>2
  <2> HIDE DEF Ends
  <2>5. both(s) \in Seq(S \cup T) /\ \A e \in S \cup T : Ends(e)
    BY <2>3, <2>4
  <2> QED BY <2>1, <2>5
<1> HIDE DEF both
<1>5. Len(segments) \in Nat /\ DOMAIN segments = 1..Len(segments)
  BY <1>2, IsListMeans
<1> HIDE DEF segments, Ends
<1>6. DOMAIN lists = 1..Len(segments) /\ (\A i \in 1..Len(segments) : lists[i] = both(segments[i])) /\ lists = [i \in 1..Len(segments) |-> lists[i]]
  BY <1>5
<1> HIDE DEF lists
<1>7. IsList(lists) /\ Len(lists) = Len(segments)
  BY <1>5, <1>6, ListIs
<1>8. ASSUME NEW i \in 1..Len(lists) PROVE IsList(lists[i]) /\ \A e \in Range(lists[i]) : Ends(e)
  <2>1. PICK S : lists[i] \in Seq(S) /\ \A e \in S : Ends(e)
    BY <1>4, <1>6, <1>7
  <2>2. IsList(lists[i]) /\ Range(lists[i]) \subseteq S
    BY <2>1, OverItsRange DEF IsList
  <2> QED BY <2>1, <2>2
<1>9. PICK flat : flat = FlattenSeq(lists)
  OBVIOUS
<1>10. IsList(flat) /\ \A e \in Range(flat) : \E i \in 1..Len(lists) : e \in Range(lists[i])
  BY <1>7, <1>8, <1>9, Flattening
<1>11. \A e \in Range(flat) : Ends(e)
  <2> HIDE DEF Range
  <2> QED BY <1>8, <1>10
<1> QED BY <1>1, <1>9, <1>10, <1>11 DEF Ends

\* The edges of all ways do.
LEMMA EdgesAre ==
  ASSUME NEW scan, IsList(scan.ways), \A i \in 1..Len(scan.ways) : IsList(scan.ways[i].nodes)
  PROVE  /\ IsList(EdgesOf(scan))
         /\ \A e \in Range(EdgesOf(scan)) : e.from \in DOMAIN scan.nodes /\ e.to \in DOMAIN scan.nodes
<1> DEFINE lists == [n \in DOMAIN scan.ways |-> EdgesOfWay(scan.ways[n], scan)]
           Ends(e) == e.from \in DOMAIN scan.nodes /\ e.to \in DOMAIN scan.nodes
<1>1. EdgesOf(scan) = FlattenSeq(lists)
  BY Zenon DEF EdgesOf
<1>2. Len(scan.ways) \in Nat /\ DOMAIN scan.ways = 1..Len(scan.ways)
  BY IsListMeans
<1>3. DOMAIN lists = 1..Len(scan.ways) /\ (\A i \in 1..Len(scan.ways) : lists[i] = EdgesOfWay(scan.ways[i], scan))
      /\ lists = [i \in 1..Len(scan.ways) |-> lists[i]]
  BY <1>2
<1> HIDE DEF lists
<1>4. IsList(lists) /\ Len(lists) = Len(scan.ways)
  BY <1>2, <1>3, ListIs
<1>5. ASSUME NEW i \in 1..Len(lists) PROVE IsList(lists[i]) /\ \A e \in Range(lists[i]) : Ends(e)
  <2>1. IsList(scan.ways[i].nodes) /\ lists[i] = EdgesOfWay(scan.ways[i], scan)
    BY <1>3, <1>4
  <2> HIDE DEF Range
  <2> QED BY <2>1, EdgesOfWayAre
<1> HIDE DEF Ends
<1>6. PICK flat : flat = FlattenSeq(lists)
  OBVIOUS
<1>7. IsList(flat) /\ \A e \in Range(flat) : \E i \in 1..Len(lists) : e \in Range(lists[i])
  BY <1>4, <1>5, <1>6, Flattening
<1>8. \A e \in Range(flat) : Ends(e)
  <2> HIDE DEF Range
  <2> QED BY <1>5, <1>7
<1> QED BY <1>1, <1>6, <1>7, <1>8 DEF Ends

\* What is built from the objects is a road graph.
LEMMA TopologyIs ==
  ASSUME NEW s, IsState(s)
  PROVE  /\ IsTopology(BuildTopology(ScanOutput(s)))
         /\ BuildTopology(ScanOutput(s)).nodes = [n \in DOMAIN ScanOutput(s).nodes |-> ScanOutput(s).nodes[n].id]
         /\ BuildTopology(ScanOutput(s)).components
              = ComponentsOf(Len(BuildTopology(ScanOutput(s)).nodes), BuildTopology(ScanOutput(s)).edges)
         /\ ScanOutput(s).nodes \in Seq(NodeType)
<1> DEFINE scan == ScanOutput(s)
           found == FlattenSeq(ById(s.restrictions))
           needed == UNION {Range(ById(s.ways)[n].nodes) : n \in DOMAIN ById(s.ways)} \cup ({found[n].node : n \in DOMAIN found} \ {None})
           positions == {n \in DOMAIN s.nodes : s.nodes[n].id \in needed}
<1>1. scan.ways = ById(s.ways) /\ scan.nodes = Picked(s.nodes, positions)
  BY DEF ScanOutput
<1> HIDE DEF needed
<1>2. Len(s.nodes) \in Nat /\ DOMAIN s.nodes = 1..Len(s.nodes) /\ \A n \in 1..Len(s.nodes) : s.nodes[n] \in NodeType
  BY DEF IsState
<1>3. positions \in SUBSET (1..Len(s.nodes))
  BY <1>2
<1> HIDE DEF positions
<1>4. positions \in SUBSET Int /\ IsFiniteSet(positions)
  <2>1. IsFiniteSet(1..Len(s.nodes)) /\ 1..Len(s.nodes) \in SUBSET Int
    BY <1>2, FS_Interval
  <2> QED BY <1>3, <2>1, FS_Subset
<1> HIDE DEF scan
<1>5. scan.nodes \in Seq(NodeType)
  <2>1. /\ IsList(scan.nodes) /\ Len(scan.nodes) = Cardinality(positions)
        /\ \A i \in 1..Cardinality(positions) : \E p \in positions : scan.nodes[i] = s.nodes[p]
    BY <1>1, <1>4, Picking
  <2>2. \A i \in 1..Len(scan.nodes) : scan.nodes[i] \in NodeType
    BY <1>2, <1>3, <2>1
  <2> QED BY <2>1, <2>2, ListOver
<1>6. IsList(scan.ways) /\ \A i \in 1..Len(scan.ways) : IsList(scan.ways[i].nodes)
  <2>1. PICK f : f = s.ways
    OBVIOUS
  <2>2. DOMAIN f \in SUBSET Int /\ IsFiniteSet(DOMAIN f) /\ \A id \in DOMAIN f : IsList(f[id].nodes)
    BY <2>1 DEF IsState
  <2>3. IsList(ById(f)) /\ \A i \in 1..Len(ById(f)) : Sorted(DOMAIN f)[i] \in DOMAIN f /\ ById(f)[i] = f[Sorted(DOMAIN f)[i]]
    BY <2>2, InOrderOfIds
  <2> QED BY <1>1, <2>1, <2>2, <2>3
<1>7. PICK edges : edges = EdgesOf(scan)
  OBVIOUS
<1>8. IsList(edges) /\ \A e \in Range(edges) : e.from \in DOMAIN scan.nodes /\ e.to \in DOMAIN scan.nodes
  BY <1>6, <1>7, EdgesAre
<1> DEFINE ids == [n \in DOMAIN scan.nodes |-> scan.nodes[n].id]
           places == [n \in DOMAIN scan.nodes |-> scan.nodes[n].place]
           built(es) == [nodes |-> ids, places |-> places, edges |-> es,
                         restrictions |-> TurnRestrictions(scan, es), components |-> ComponentsOf(Len(ids), es), rules |-> scan.rules]
<1>9. PICK t : t = built(edges)
  OBVIOUS
<1>10. BuildTopology(scan) = t
  <2>1. BuildTopology(scan) = One({built(es) : es \in {EdgesOf(scan)}})
    BY Zenon DEF BuildTopology
  <2> HIDE DEF built
  <2>2. {built(es) : es \in {EdgesOf(scan)}} = {t}
    BY <1>7, <1>9
  <2>3. One({t}) \in {t}
    BY Zenon DEF One
  <2> QED BY <2>1, <2>2, <2>3
<1>11. t.nodes = ids /\ t.places = places /\ t.edges = edges /\ t.components = ComponentsOf(Len(ids), edges)
  BY <1>9
<1>12. ids \in Seq(Int) /\ places \in Seq(Int \X Int) /\ Len(ids) = Len(places) /\ Len(places) = Len(scan.nodes) /\ DOMAIN scan.nodes = 1..Len(scan.nodes)
  <2>1. PICK k \in Nat : k = Len(scan.nodes)
    BY <1>5
  <2>2. DOMAIN scan.nodes = 1..k /\ \A n \in 1..k : scan.nodes[n] \in NodeType
    BY <1>5, <2>1
  <2>3. \A n \in 1..k : scan.nodes[n].id \in Int /\ scan.nodes[n].place \in Int \X Int
    BY <2>2 DEF NodeType
  <2>4. ids \in [1..k -> Int] /\ places \in [1..k -> Int \X Int]
    BY <2>2, <2>3
  <2> HIDE DEF ids, places
  <2> QED BY <2>1, <2>2, <2>4
<1>13. \A i \in 1..Len(edges) : edges[i] \in Range(edges)
  BY <1>8, IsListMeans
<1>14. IsTopology(t)
  <2> HIDE DEF ids, places
  <2> QED BY <1>8, <1>11, <1>12, <1>13 DEF IsTopology
<1> QED BY <1>5, <1>10, <1>11, <1>14 DEF scan

\* Who continues into whom makes a graph of the edges.
LEMMA GraphIs ==
  ASSUME NEW t, IsTopology(t)
  PROVE  IsGraph(GraphOf(t), DOMAIN t.edges) /\ DOMAIN t.edges = 1..Len(t.edges) /\ Len(t.edges) \in Nat
<1> DEFINE E == DOMAIN t.edges
           steps == {p \in TransitionsOf(t.edges) : p[1] # p[2]}
           graph == GraphOf(t)
<1>1. E = 1..Len(t.edges) /\ Len(t.edges) \in Nat
  BY IsListMeans DEF IsTopology
<1>2. E \in SUBSET Nat /\ IsFiniteSet(E)
  BY <1>1, FS_Interval
<1>3. /\ graph.linked = steps \cup {<<p[2], p[1]>> : p \in steps}
      /\ graph.at = [e \in E |-> <<t.places[t.edges[e].from][1] + t.places[t.edges[e].to][1],
                                   t.places[t.edges[e].from][2] + t.places[t.edges[e].to][2]>>]
  BY DEF GraphOf
<1>4. \A p \in steps : p = <<p[1], p[2]>>
  BY DEF TransitionsOf
<1> HIDE DEF graph, steps
<1>5. ASSUME NEW e, NEW f, <<e, f>> \in graph.linked PROVE <<f, e>> \in graph.linked
  <2>1. CASE <<e, f>> \in steps
    BY <1>3, <2>1
  <2>2. CASE <<e, f>> \notin steps
    <3>1. PICK p \in steps : <<e, f>> = <<p[2], p[1]>>
      BY <1>3, <1>5, <2>2
    <3>2. <<f, e>> = p
      BY <1>4, <3>1
    <3> QED BY <1>3, <3>2
  <2> QED BY <2>1, <2>2
<1>6. graph.at \in [E -> Int \X Int]
  <2>1. \A e \in E : t.places[t.edges[e].from] \in Int \X Int /\ t.places[t.edges[e].to] \in Int \X Int
    <3>1. \A i \in 1..Len(t.places) : t.places[i] \in Int \X Int
      BY DEF IsTopology
    <3> QED BY <1>1, <3>1 DEF IsTopology
  <2>2. \A p, q \in Int \X Int : <<p[1] + q[1], p[2] + q[2]>> \in Int \X Int
    OBVIOUS
  <2>3. \A e \in E : <<t.places[t.edges[e].from][1] + t.places[t.edges[e].to][1],
                       t.places[t.edges[e].from][2] + t.places[t.edges[e].to][2]>> \in Int \X Int
    <3> HIDE DEF E
    <3> QED BY <2>1, <2>2
  <2> HIDE DEF E
  <2> QED BY <1>3, <2>3, Zenon
<1> QED BY <1>1, <1>2, <1>5, <1>6 DEF IsGraph, graph

-----------------------------------------------------------------------------
(* The folds that a dataset is made by.                                    *)

KeptApart(c, node) ==
  IF c.left # << >> /\ Head(c.left) = node.id THEN [c EXCEPT !.left = Tail(@)] ELSE [c EXCEPT !.others = Append(@, node)]

Merged(c, node) ==
  LET stop == Min({n \in DOMAIN c.left : c.left[n].id >= node.id} \cup {Len(c.left) + 1})
  IN  [nodes |-> c.nodes \o SubSeq(c.left, 1, stop - 1) \o <<node>>, left |-> SubSeq(c.left, stop, Len(c.left))]

FileApplied(c, file) == ApplyChanges(c, EffectiveChanges(file))

Step(kind, c, x) ==
  CASE kind = "scan"   -> InsertScanned(c, x)
    [] kind = "change" -> ApplyChange(c, x)
    [] kind = "file"   -> FileApplied(c, x)
    [] kind = "sum"    -> c + x
    [] kind = "apart"  -> KeptApart(c, x)
    [] kind = "merge"  -> Merged(c, x)
    [] kind = "unite"  -> United(c, x.from, x.to)
    [] kind = "intern" -> Interned(c, x)

Folds(f, kind, base, list) ==
  f = [s \in SUBSET DOMAIN list |-> IF s = {} THEN base ELSE Step(kind, f[s \ {Max(s)}], list[Max(s)])]

\* Whatever the steps do, such a fold exists.
LEMMA FoldsExist ==
  ASSUME NEW kind, NEW base, NEW list, IsList(list)
  PROVE  \E f : Folds(f, kind, base, list)
<1>0. PICK n : n = Len(list)
  OBVIOUS
<1> DEFINE Good(at, m) == /\ at[0] = [s \in SUBSET (1..n) |-> base]
                          /\ \A i \in 1..m : at[i] = [s \in SUBSET (1..n) |-> IF i \in s THEN Step(kind, at[i - 1][s], list[i]) ELSE at[i - 1][s]]
           T == {m \in Nat : \E at : Good(at, m)}
<1>1. n \in Nat /\ DOMAIN list = 1..n
  BY <1>0, IsListMeans
<1>2. 0 \in T
  <2>1. Good([i \in {0} |-> [s \in SUBSET (1..n) |-> base]], 0)
    OBVIOUS
  <2> HIDE DEF Good
  <2> QED BY <2>1
<1>3. ASSUME NEW m \in Nat, m \in T PROVE m + 1 \in T
  <2>1. PICK at : Good(at, m)
    BY <1>3
  <2>2. PICK new : new = [s \in SUBSET (1..n) |-> IF m + 1 \in s THEN Step(kind, at[m][s], list[m + 1]) ELSE at[m][s]]
    OBVIOUS
  <2> DEFINE g == [i \in 0..(m + 1) |-> IF i = m + 1 THEN new ELSE at[i]]
  <2>3. g[0] = at[0] /\ g[m + 1] = new /\ \A i \in 1..m : g[i] = at[i] /\ g[i - 1] = at[i - 1]
    OBVIOUS
  <2>4. g[m] = at[m]
    OBVIOUS
  <2> HIDE DEF g
  <2>5. g[m + 1] = [s \in SUBSET (1..n) |-> IF m + 1 \in s THEN Step(kind, g[(m + 1) - 1][s], list[m + 1]) ELSE g[(m + 1) - 1][s]]
    <3>1. (m + 1) - 1 = m
      OBVIOUS
    <3> QED BY <2>2, <2>3, <2>4, <3>1
  <2>6. ASSUME NEW i \in 1..(m + 1)
        PROVE  g[i] = [s \in SUBSET (1..n) |-> IF i \in s THEN Step(kind, g[i - 1][s], list[i]) ELSE g[i - 1][s]]
    <3>1. CASE i = m + 1
      BY <2>5, <3>1
    <3>2. CASE i # m + 1
      <4>1. i \in 1..m
        BY <3>2
      <4>2. at[i] = [s \in SUBSET (1..n) |-> IF i \in s THEN Step(kind, at[i - 1][s], list[i]) ELSE at[i - 1][s]]
        BY <2>1, <4>1
      <4>3. g[i] = at[i] /\ g[i - 1] = at[i - 1]
        BY <2>3, <4>1
      <4> QED BY <4>2, <4>3
    <3> QED BY <3>1, <3>2
  <2>7. Good(g, m + 1)
    BY <2>1, <2>3, <2>6
  <2> HIDE DEF Good
  <2> QED BY <2>7
<1>4. n \in T
  <2> HIDE DEF T
  <2> QED BY <1>1, <1>2, <1>3, StepByStep
<1>5. PICK at : Good(at, n)
  BY <1>4
<1>6. /\ \A s \in SUBSET (1..n) : at[0][s] = base
      /\ \A i \in 1..n, s \in SUBSET (1..n) : at[i][s] = IF i \in s THEN Step(kind, at[i - 1][s], list[i]) ELSE at[i - 1][s]
  <2>1. /\ at[0] = [s \in SUBSET (1..n) |-> base]
        /\ \A i \in 1..n : at[i] = [s \in SUBSET (1..n) |-> IF i \in s THEN Step(kind, at[i - 1][s], list[i]) ELSE at[i - 1][s]]
    BY <1>5, Zenon
  <2>2. \A s \in SUBSET (1..n) : at[0][s] = base
    BY <2>1
  <2>3. ASSUME NEW i \in 1..n, NEW s \in SUBSET (1..n)
        PROVE  at[i][s] = IF i \in s THEN Step(kind, at[i - 1][s], list[i]) ELSE at[i - 1][s]
    <3>1. at[i] = [r \in SUBSET (1..n) |-> IF i \in r THEN Step(kind, at[i - 1][r], list[i]) ELSE at[i - 1][r]]
      BY <2>1
    <3> QED BY <3>1
  <2> QED BY <2>2, <2>3
<1> HIDE DEF Good, T
<1>7. Accumulates(at, n)
  <2>1. ASSUME NEW i \in 1..n, NEW s \in SUBSET (1..n), NEW t \in SUBSET (1..n), i \in s, i \in t, at[i - 1][s] = at[i - 1][t]
        PROVE  at[i][s] = at[i][t]
    <3>1. at[i][s] = Step(kind, at[i - 1][s], list[i]) /\ at[i][t] = Step(kind, at[i - 1][t], list[i])
      BY <1>6, <2>1
    <3> QED BY <2>1, <3>1
  <2> QED BY <1>6, <2>1 DEF Accumulates
<1>8. PICK f : f = [s \in SUBSET (1..n) |-> at[n][s]]
  OBVIOUS
<1>9. ASSUME NEW s \in SUBSET (1..n) PROVE f[s] = IF s = {} THEN base ELSE Step(kind, f[s \ {Max(s)}], list[Max(s)])
  <2>1. /\ s = {} => at[n][s] = at[0][s]
        /\ s # {} => /\ Max(s) \in s
                     /\ at[n][s] = at[Max(s)][s] /\ at[Max(s) - 1][s] = at[n][s \ {Max(s)}]
    <3>1. EndsWith(at, n, s)
      BY <1>1, <1>7, Accumulating
    <3> QED BY <3>1 DEF EndsWith
  <2>2. CASE s = {}
    BY <1>6, <1>8, <2>1, <2>2
  <2>3. CASE s # {}
    <3>1. PICK m : m = Max(s)
      OBVIOUS
    <3>2. m \in s /\ m \in 1..n /\ at[n][s] = at[m][s] /\ at[m - 1][s] = at[n][s \ {m}] /\ s \ {m} \in SUBSET (1..n)
      BY <2>1, <2>3, <3>1
    <3>3. at[m][s] = Step(kind, at[m - 1][s], list[m])
      BY <1>6, <3>2
    <3>4. f[s] = at[n][s] /\ f[s \ {m}] = at[n][s \ {m}]
      BY <1>8, <3>2
    <3> QED BY <2>3, <3>1, <3>2, <3>3, <3>4
  <2> QED BY <2>2, <2>3
<1>10. f = [s \in SUBSET (1..n) |-> f[s]]
  BY <1>8
<1>11. f = [s \in SUBSET DOMAIN list |-> IF s = {} THEN base ELSE Step(kind, f[s \ {Max(s)}], list[Max(s)])]
  BY <1>1, <1>9, <1>10
<1> QED BY <1>11, Zenon DEF Folds

Fold(kind, base, list) == CHOOSE f : Folds(f, kind, base, list)

Takes(f, kind, base, list) ==
  /\ f[{}] = base
  /\ \A s \in SUBSET (1..Len(list)) : s # {} => Max(s) \in s /\ f[s] = Step(kind, f[s \ {Max(s)}], list[Max(s)])

\* It begins with the base and takes the positions in their order.
LEMMA FoldIs ==
  ASSUME NEW kind, NEW base, NEW list, IsList(list)
  PROVE  Takes(Fold(kind, base, list), kind, base, list)
<1>1. PICK f : f = Fold(kind, base, list)
  OBVIOUS
<1>2. Folds(f, kind, base, list)
  BY <1>1, FoldsExist, Zenon DEF Fold
<1>3. f = [s \in SUBSET DOMAIN list |-> IF s = {} THEN base ELSE Step(kind, f[s \ {Max(s)}], list[Max(s)])]
  BY <1>2, Zenon DEF Folds
<1>4. DOMAIN list = 1..Len(list) /\ Len(list) \in Nat
  BY IsListMeans
<1>5. f[{}] = base
  BY <1>3
<1>6. ASSUME NEW s \in SUBSET (1..Len(list)), s # {}
      PROVE  Max(s) \in s /\ f[s] = Step(kind, f[s \ {Max(s)}], list[Max(s)])
  <2>1. Max(s) \in s
    BY <1>4, <1>6, MaxIsGreatest
  <2> QED BY <1>3, <1>4, <1>6, <2>1
<1> QED BY <1>1, <1>5, <1>6 DEF Takes

\* The folds of the sources.
LEMMA ScanFolds ==
  ASSUME NEW base, NEW list
  PROVE  FoldLeft(InsertScanned, base, list) = Fold("scan", base, list)[DOMAIN list]
<1> DEFINE Made(f) == [s \in SUBSET DOMAIN list |-> IF s = {} THEN base ELSE InsertScanned(f[s \ {Max(s)}], list[Max(s)])]
<1>1. \A c, x : InsertScanned(c, x) = Step("scan", c, x)
  BY Zenon DEF Step
<1>2. ASSUME NEW f PROVE Made(f) = [s \in SUBSET DOMAIN list |-> IF s = {} THEN base ELSE Step("scan", f[s \ {Max(s)}], list[Max(s)])]
  BY <1>1
<1>3. \A f : Folds(f, "scan", base, list) <=> f = Made(f)
  BY <1>2, Zenon DEF Folds
<1>4. (CHOOSE f : Folds(f, "scan", base, list)) = (CHOOSE f : f = Made(f))
  BY <1>3
<1> QED BY <1>4, Zenon DEF FoldLeft, MapThenFoldSet, Fold

\* The changes of a file, applied one after the other.
LEMMA ChangeFolds ==
  ASSUME NEW base, NEW list
  PROVE  FoldLeft(ApplyChange, base, list) = Fold("change", base, list)[DOMAIN list]
<1> DEFINE Made(f) == [s \in SUBSET DOMAIN list |-> IF s = {} THEN base ELSE ApplyChange(f[s \ {Max(s)}], list[Max(s)])]
<1>1. \A c, x : ApplyChange(c, x) = Step("change", c, x)
  BY Zenon DEF Step
<1>2. ASSUME NEW f PROVE Made(f) = [s \in SUBSET DOMAIN list |-> IF s = {} THEN base ELSE Step("change", f[s \ {Max(s)}], list[Max(s)])]
  BY <1>1
<1>3. \A f : Folds(f, "change", base, list) <=> f = Made(f)
  BY <1>2, Zenon DEF Folds
<1>4. (CHOOSE f : Folds(f, "change", base, list)) = (CHOOSE f : f = Made(f))
  BY <1>3
<1> QED BY <1>4, Zenon DEF FoldLeft, MapThenFoldSet, Fold

\* The files of an update, applied one after the other.
LEMMA FileFolds ==
  ASSUME NEW base, NEW list
  PROVE  FoldLeft(FileApplied, base, list) = Fold("file", base, list)[DOMAIN list]
<1> DEFINE Made(f) == [s \in SUBSET DOMAIN list |-> IF s = {} THEN base ELSE FileApplied(f[s \ {Max(s)}], list[Max(s)])]
<1>1. \A c, x : FileApplied(c, x) = Step("file", c, x)
  BY Zenon DEF Step
<1>2. ASSUME NEW f PROVE Made(f) = [s \in SUBSET DOMAIN list |-> IF s = {} THEN base ELSE Step("file", f[s \ {Max(s)}], list[Max(s)])]
  BY <1>1
<1>3. \A f : Folds(f, "file", base, list) <=> f = Made(f)
  BY <1>2, Zenon DEF Folds
<1>4. (CHOOSE f : Folds(f, "file", base, list)) = (CHOOSE f : f = Made(f))
  BY <1>3
<1> QED BY <1>4, Zenon DEF FoldLeft, MapThenFoldSet, Fold

\* The sum of some counts.
LEMMA SumFolds ==
  ASSUME NEW base, NEW list
  PROVE  FoldLeft(LAMBDA sum, c : sum + c, base, list) = Fold("sum", base, list)[DOMAIN list]
<1> DEFINE Made(f) == [s \in SUBSET DOMAIN list |-> IF s = {} THEN base ELSE f[s \ {Max(s)}] + list[Max(s)]]
<1>1. \A c, x : c + x = Step("sum", c, x)
  BY Zenon DEF Step
<1>2. ASSUME NEW f PROVE Made(f) = [s \in SUBSET DOMAIN list |-> IF s = {} THEN base ELSE Step("sum", f[s \ {Max(s)}], list[Max(s)])]
  BY <1>1, Zenon
<1>3. \A f : Folds(f, "sum", base, list) <=> f = Made(f)
  BY <1>2, Zenon DEF Folds
<1>4. (CHOOSE f : Folds(f, "sum", base, list)) = (CHOOSE f : f = Made(f))
  BY <1>3
<1> QED BY <1>4, Zenon DEF FoldLeft, MapThenFoldSet, Fold

\* The nodes of a state, split from those of the topology.
LEMMA ApartFolds ==
  ASSUME NEW base, NEW list
  PROVE  FoldLeft(KeptApart, base, list) = Fold("apart", base, list)[DOMAIN list]
<1> DEFINE Made(f) == [s \in SUBSET DOMAIN list |-> IF s = {} THEN base ELSE KeptApart(f[s \ {Max(s)}], list[Max(s)])]
<1>1. \A c, x : KeptApart(c, x) = Step("apart", c, x)
  BY Zenon DEF Step
<1>2. ASSUME NEW f PROVE Made(f) = [s \in SUBSET DOMAIN list |-> IF s = {} THEN base ELSE Step("apart", f[s \ {Max(s)}], list[Max(s)])]
  BY <1>1
<1>3. \A f : Folds(f, "apart", base, list) <=> f = Made(f)
  BY <1>2, Zenon DEF Folds
<1>4. (CHOOSE f : Folds(f, "apart", base, list)) = (CHOOSE f : f = Made(f))
  BY <1>3
<1> QED BY <1>4, Zenon DEF FoldLeft, MapThenFoldSet, Fold

\* The nodes of a topology and the others, merged again.
LEMMA MergeFolds ==
  ASSUME NEW base, NEW list
  PROVE  FoldLeft(Merged, base, list) = Fold("merge", base, list)[DOMAIN list]
<1> DEFINE Made(f) == [s \in SUBSET DOMAIN list |-> IF s = {} THEN base ELSE Merged(f[s \ {Max(s)}], list[Max(s)])]
<1>1. \A c, x : Merged(c, x) = Step("merge", c, x)
  BY Zenon DEF Step
<1>2. ASSUME NEW f PROVE Made(f) = [s \in SUBSET DOMAIN list |-> IF s = {} THEN base ELSE Step("merge", f[s \ {Max(s)}], list[Max(s)])]
  BY <1>1
<1>3. \A f : Folds(f, "merge", base, list) <=> f = Made(f)
  BY <1>2, Zenon DEF Folds
<1>4. (CHOOSE f : Folds(f, "merge", base, list)) = (CHOOSE f : f = Made(f))
  BY <1>3
<1> QED BY <1>4, Zenon DEF FoldLeft, MapThenFoldSet, Fold

\* The roads, united one after the other.
LEMMA UniteFolds ==
  ASSUME NEW base, NEW list
  PROVE  FoldLeft(LAMBDA f, e : United(f, e.from, e.to), base, list) = Fold("unite", base, list)[DOMAIN list]
<1> DEFINE Made(f) == [s \in SUBSET DOMAIN list |-> IF s = {} THEN base ELSE United(f[s \ {Max(s)}], list[Max(s)].from, list[Max(s)].to)]
<1>1. \A c, x : United(c, x.from, x.to) = Step("unite", c, x)
  BY Zenon DEF Step
<1>2. ASSUME NEW f PROVE Made(f) = [s \in SUBSET DOMAIN list |-> IF s = {} THEN base ELSE Step("unite", f[s \ {Max(s)}], list[Max(s)])]
  BY <1>1
<1>3. \A f : Folds(f, "unite", base, list) <=> f = Made(f)
  BY <1>2, Zenon DEF Folds
<1>4. (CHOOSE f : Folds(f, "unite", base, list)) = (CHOOSE f : f = Made(f))
  BY <1>3
<1> QED BY <1>4, Zenon DEF FoldLeft, MapThenFoldSet, Fold

\* Values, each kept at its first mention.
LEMMA InternFolds ==
  ASSUME NEW base, NEW list
  PROVE  FoldLeft(Interned, base, list) = Fold("intern", base, list)[DOMAIN list]
<1> DEFINE Made(f) == [s \in SUBSET DOMAIN list |-> IF s = {} THEN base ELSE Interned(f[s \ {Max(s)}], list[Max(s)])]
<1>1. \A c, x : Interned(c, x) = Step("intern", c, x)
  BY Zenon DEF Step
<1>2. ASSUME NEW f PROVE Made(f) = [s \in SUBSET DOMAIN list |-> IF s = {} THEN base ELSE Step("intern", f[s \ {Max(s)}], list[Max(s)])]
  BY <1>1
<1>3. \A f : Folds(f, "intern", base, list) <=> f = Made(f)
  BY <1>2, Zenon DEF Folds
<1>4. (CHOOSE f : Folds(f, "intern", base, list)) = (CHOOSE f : f = Made(f))
  BY <1>3
<1> QED BY <1>4, Zenon DEF FoldLeft, MapThenFoldSet, Fold

\* A fold, position by position.
LEMMA FoldedSteps ==
  ASSUME NEW kind, NEW base, NEW list, IsList(list), NEW f, Takes(f, kind, base, list)
  PROVE  f[1..0] = base /\ \A m \in 1..Len(list) : f[1..m] = Step(kind, f[1..(m - 1)], list[m])
<1>1. f[1..0] = base
  <2>1. 1..0 = {}
    OBVIOUS
  <2> QED BY <2>1 DEF Takes
<1>2. ASSUME NEW m \in 1..Len(list) PROVE f[1..m] = Step(kind, f[1..(m - 1)], list[m])
  <2>1. Len(list) \in Nat
    BY IsListMeans
  <2>2. m \in Nat /\ 1..m \in SUBSET (1..Len(list)) /\ 1..m # {} /\ m \in 1..m
    BY <2>1
  <2>3. Max(1..m) \in 1..m /\ \A y \in 1..m : y <= Max(1..m)
    BY <2>2, MaxIsGreatest
  <2>4. PICK k : k = Max(1..m)
    OBVIOUS
  <2>5. k = m
    BY <2>2, <2>3, <2>4
  <2>6. (1..m) \ {m} = 1..(m - 1)
    BY <2>2
  <2>7. f[1..m] = Step(kind, f[(1..m) \ {k}], list[k])
    BY <2>2, <2>4 DEF Takes
  <2> QED BY <2>5, <2>6, <2>7
<1> QED BY <1>1, <1>2

\* The nodes that a topology does not have are nodes.
LEMMA KeptApartAre ==
  ASSUME NEW ids \in Seq(Int), NEW nodes \in Seq(NodeType)
  PROVE  FoldLeft(KeptApart, [left |-> ids, others |-> << >>], nodes).others \in Seq(NodeType)
<1> DEFINE D == [left : Seq(Int), others : Seq(NodeType)]
           base == [left |-> ids, others |-> << >>]
<1>1. IsList(nodes) /\ \A i \in 1..Len(nodes) : nodes[i] \in NodeType
  BY SeqIsList
<1>2. Len(nodes) \in Nat /\ DOMAIN nodes = 1..Len(nodes)
  BY <1>1, IsListMeans
<1>3. base \in D
  OBVIOUS
<1>4. ASSUME NEW c \in D, NEW x \in NodeType PROVE Step("apart", c, x) \in D
  <2>1. Step("apart", c, x) = KeptApart(c, x)
    BY Zenon DEF Step
  <2>2. PICK l \in Seq(Int), o \in Seq(NodeType) : c = [left |-> l, others |-> o]
    OBVIOUS
  <2>3. CASE c.left # << >> /\ Head(c.left) = x.id
    <3>1. Tail(l) \in Seq(Int) /\ l = c.left
      BY <2>2, <2>3
    <3>2. PICK d : d = [c EXCEPT !.left = Tail(@)]
      OBVIOUS
    <3>3. d = [left |-> d.left, others |-> d.others] /\ d.left = Tail(l) /\ d.others = o
      BY <2>2, <3>1, <3>2
    <3>4. KeptApart(c, x) = d
      BY <2>3, <3>2, Zenon DEF KeptApart
    <3>5. d \in D
      BY <3>1, <3>3
    <3> QED BY <2>1, <3>4, <3>5
  <2>4. CASE ~(c.left # << >> /\ Head(c.left) = x.id)
    <3>1. Append(o, x) \in Seq(NodeType)
      OBVIOUS
    <3>2. PICK d : d = [c EXCEPT !.others = Append(@, x)]
      OBVIOUS
    <3>3. d = [left |-> d.left, others |-> d.others] /\ d.left = l /\ d.others = Append(o, x)
      BY <2>2, <3>1, <3>2
    <3>4. KeptApart(c, x) = d
      BY <2>4, <3>2, Zenon DEF KeptApart
    <3>5. d \in D
      BY <3>1, <3>3
    <3> QED BY <2>1, <3>4, <3>5
  <2> QED BY <2>3, <2>4
<1> HIDE DEF D, base
<1>5. PICK F : F = Fold("apart", base, nodes)
  OBVIOUS
<1>6. /\ F[{}] = base
      /\ \A s \in SUBSET (1..Len(nodes)) : s # {} => Max(s) \in s /\ F[s] = Step("apart", F[s \ {Max(s)}], nodes[Max(s)])
  <2>1. Takes(F, "apart", base, nodes)
    BY <1>1, <1>5, FoldIs
  <2> QED BY <2>1 DEF Takes
<1> DEFINE P == {s \in SUBSET (1..Len(nodes)) : F[s] \in D}
<1>7. {} \in P
  BY <1>3, <1>6
<1>8. \A s \in SUBSET (1..Len(nodes)) : s # {} /\ s \ {Max(s)} \in P => s \in P
  BY <1>1, <1>4, <1>6, Zenon
<1>9. SUBSET (1..Len(nodes)) \subseteq P
  <2> HIDE DEF P
  <2> QED BY <1>2, <1>7, <1>8, FoldInduction
<1>10. FoldLeft(KeptApart, base, nodes) = F[DOMAIN nodes]
  BY <1>5, ApartFolds
<1>11. FoldLeft(KeptApart, base, nodes) \in D
  BY <1>2, <1>9, <1>10
<1>12. \A c \in D : c.others \in Seq(NodeType)
  BY DEF D
<1> QED BY <1>11, <1>12 DEF base

-----------------------------------------------------------------------------
(* The snapshot, as far as the objects restored from it depend on it.      *)

IsSnapshot(snap) ==
  /\ snap.topologyIds \in Seq(Int) /\ snap.otherNodes \in Seq(NodeType)
  /\ snap.wayIds \in Seq(Int) /\ snap.wayNodeCounts \in Seq(Nat) /\ Len(snap.wayNodeCounts) = Len(snap.wayIds)
  /\ \A n \in 1..Len(snap.wayIds) : "nodes" \in DOMAIN snap.wayAttributes[n]

\* What is kept beside a topology is a snapshot.
LEMMA SnapshotIs ==
  ASSUME NEW s, IsState(s), NEW ids \in Seq(Int)
  PROVE  IsSnapshot(ToSnapshot(s, ids))
<1> DEFINE snap == ToSnapshot(s, ids)
           ways == ById(s.ways)
<1>1. /\ snap.topologyIds = ids
      /\ snap.otherNodes = FoldLeft(KeptApart, [left |-> ids, others |-> << >>], s.nodes).others
      /\ snap.wayIds = Sorted(DOMAIN s.ways)
      /\ snap.wayNodeCounts = [n \in DOMAIN ways |-> Len(ways[n].nodes)]
      /\ snap.wayAttributes = [n \in DOMAIN ways |-> [ways[n] EXCEPT !.id = None, !.nodes = << >>, !.name = None]]
  <2>1. snap.topologyIds = ids /\ snap.wayIds = Sorted(DOMAIN s.ways)
    BY DEF ToSnapshot
  <2>2. snap.otherNodes = FoldLeft(KeptApart, [left |-> ids, others |-> << >>], s.nodes).others
    BY DEF ToSnapshot, KeptApart, FoldLeft, MapThenFoldSet
  <2>3. /\ snap.wayNodeCounts = [n \in DOMAIN ways |-> Len(ways[n].nodes)]
        /\ snap.wayAttributes = [n \in DOMAIN ways |-> [ways[n] EXCEPT !.id = None, !.nodes = << >>, !.name = None]]
    BY DEF ToSnapshot
  <2> QED BY <2>1, <2>2, <2>3
<1>2. snap.otherNodes \in Seq(NodeType)
  BY <1>1, KeptApartAre DEF IsState
<1>3. PICK f : f = s.ways
  OBVIOUS
<1>4. DOMAIN f \in SUBSET Int /\ IsFiniteSet(DOMAIN f) /\ \A id \in DOMAIN f : "nodes" \in DOMAIN f[id] /\ IsList(f[id].nodes)
  BY <1>3 DEF IsState
<1>5. PICK k : k = Len(ways)
  OBVIOUS
<1>6. /\ IsList(ways) /\ k = Cardinality(DOMAIN f) /\ Len(snap.wayIds) = k /\ snap.wayIds \in Seq(Int)
      /\ \A i \in 1..k : snap.wayIds[i] \in DOMAIN f /\ ways[i] = f[snap.wayIds[i]]
  <2>1. /\ IsList(ById(f)) /\ Len(ById(f)) = Cardinality(DOMAIN f)
        /\ Len(Sorted(DOMAIN f)) = Cardinality(DOMAIN f) /\ Sorted(DOMAIN f) \in Seq(Int)
        /\ \A i \in 1..Len(ById(f)) : Sorted(DOMAIN f)[i] \in DOMAIN f /\ ById(f)[i] = f[Sorted(DOMAIN f)[i]]
    BY <1>4, InOrderOfIds
  <2>2. snap.wayIds = Sorted(DOMAIN f) /\ ways = ById(f)
    BY <1>1, <1>3
  <2> HIDE DEF snap, ways
  <2> QED BY <1>5, <2>1, <2>2
<1>7. k \in Nat /\ DOMAIN ways = 1..k
  BY <1>5, <1>6, IsListMeans
<1>8. \A i \in 1..k : Len(ways[i].nodes) \in Nat
  BY <1>4, <1>6, IsListMeans
<1> HIDE DEF snap, ways
<1>9. snap.wayNodeCounts \in Seq(Nat) /\ Len(snap.wayNodeCounts) = k
  <2>1. snap.wayNodeCounts \in [1..k -> Nat]
    BY <1>1, <1>7, <1>8
  <2> QED BY <1>7, <2>1
<1>10. ASSUME NEW n \in 1..k PROVE "nodes" \in DOMAIN snap.wayAttributes[n]
  <2>1. "nodes" \in DOMAIN ways[n]
    BY <1>4, <1>6
  <2>2. PICK w : w = ways[n]
    OBVIOUS
  <2>3. snap.wayAttributes[n] = [w EXCEPT !.id = None, !.nodes = << >>, !.name = None]
    BY <1>1, <1>7, <2>2
  <2>4. DOMAIN snap.wayAttributes[n] = DOMAIN w
    BY <2>3
  <2> QED BY <2>1, <2>2, <2>4
<1> QED BY <1>1, <1>2, <1>6, <1>9, <1>10 DEF IsSnapshot, snap

\* Nodes taken up to another one.
LEMMA MergedAre ==
  ASSUME NEW topology \in Seq(NodeType), NEW others \in Seq(NodeType)
  PROVE  MergedNodes(topology, others) \in Seq(NodeType)
<1> DEFINE D == [nodes : Seq(NodeType), left : Seq(NodeType)]
           base == [nodes |-> << >>, left |-> topology]
           c == FoldLeft(Merged, base, others)
<1>0. MergedNodes(topology, others) = c.nodes \o c.left
  BY Zenon DEF MergedNodes, Merged, FoldLeft, MapThenFoldSet
<1>1. IsList(others) /\ \A i \in 1..Len(others) : others[i] \in NodeType
  BY SeqIsList
<1>2. Len(others) \in Nat /\ DOMAIN others = 1..Len(others)
  BY <1>1, IsListMeans
<1>3. base \in D
  OBVIOUS
<1>4. ASSUME NEW d \in D, NEW x \in NodeType PROVE Step("merge", d, x) \in D
  <2>1. Step("merge", d, x) = Merged(d, x)
    BY Zenon DEF Step
  <2>2. d.nodes \in Seq(NodeType) /\ d.left \in Seq(NodeType) /\ Len(d.left) \in Nat /\ DOMAIN d.left = 1..Len(d.left)
    OBVIOUS
  <2> DEFINE stops == {n \in DOMAIN d.left : d.left[n].id >= x.id} \cup {Len(d.left) + 1}
  <2>3. PICK stop : stop = Min(stops)
    OBVIOUS
  <2>4. stop \in 1..(Len(d.left) + 1)
    <3>1. stops \in SUBSET Nat /\ stops # {} /\ stops \in SUBSET (1..(Len(d.left) + 1))
      BY <2>2
    <3> HIDE DEF stops
    <3>2. Min(stops) \in stops
      BY <3>1, MinIsLeast
    <3> QED BY <2>3, <3>1, <3>2
  <2>5. PICK m : m = [nodes |-> d.nodes \o SubSeq(d.left, 1, stop - 1) \o <<x>>, left |-> SubSeq(d.left, stop, Len(d.left))]
    OBVIOUS
  <2>6. Merged(d, x) = m
    BY <2>3, <2>5, Zenon DEF Merged
  <2>7. SubSeq(d.left, 1, stop - 1) \in Seq(NodeType) /\ SubSeq(d.left, stop, Len(d.left)) \in Seq(NodeType)
    <3>1. PICK l \in Seq(NodeType) : l = d.left
      BY <2>2
    <3>2. /\ 1 \in 1..(Len(l) + 1) /\ stop - 1 \in (1 - 1)..Len(l)
          /\ stop \in 1..(Len(l) + 1) /\ Len(l) \in (stop - 1)..Len(l)
      BY <2>2, <2>4, <3>1
    <3>3. SubSeq(l, 1, stop - 1) \in Seq(NodeType)
      BY <3>2, SubSeqProperties
    <3>4. SubSeq(l, stop, Len(l)) \in Seq(NodeType)
      BY <3>2, SubSeqProperties
    <3> QED BY <3>1, <3>3, <3>4
  <2>8. (d.nodes \o SubSeq(d.left, 1, stop - 1)) \o <<x>> \in Seq(NodeType)
    <3>1. <<x>> \in Seq(NodeType)
      OBVIOUS
    <3>2. d.nodes \o SubSeq(d.left, 1, stop - 1) \in Seq(NodeType)
      BY <2>2, <2>7, ConcatProperties
    <3> QED BY <3>1, <3>2, ConcatProperties
  <2>9. m \in D
    BY <2>5, <2>7, <2>8
  <2> QED BY <2>1, <2>6, <2>9
<1>5. PICK F : F = Fold("merge", base, others)
  OBVIOUS
<1>6. c = F[DOMAIN others]
  BY <1>5, MergeFolds
<1> HIDE DEF D, base, c
<1>7. /\ F[{}] = base
      /\ \A s \in SUBSET (1..Len(others)) : s # {} => Max(s) \in s /\ F[s] = Step("merge", F[s \ {Max(s)}], others[Max(s)])
  <2>1. Takes(F, "merge", base, others)
    BY <1>1, <1>5, FoldIs
  <2> QED BY <2>1 DEF Takes
<1> DEFINE P == {s \in SUBSET (1..Len(others)) : F[s] \in D}
<1>8. {} \in P
  BY <1>3, <1>7
<1>9. \A s \in SUBSET (1..Len(others)) : s # {} /\ s \ {Max(s)} \in P => s \in P
  BY <1>1, <1>4, <1>7, Zenon
<1>10. SUBSET (1..Len(others)) \subseteq P
  <2> HIDE DEF P
  <2> QED BY <1>2, <1>8, <1>9, FoldInduction
<1>11. c \in D
  BY <1>2, <1>6, <1>10
<1>12. \A d \in D : d.nodes \in Seq(NodeType) /\ d.left \in Seq(NodeType)
  BY DEF D
<1> QED BY <1>0, <1>11, <1>12, ConcatProperties

\* The n-th of several lists that were laid end to end.
LEMMA SliceIs ==
  ASSUME NEW flat, NEW counts \in Seq(Nat), NEW n \in 1..Len(counts)
  PROVE  IsList(Slice(flat, counts, n))
<1> DEFINE before == SubSeq(counts, 1, n - 1)
           a == FoldLeft(LAMBDA sum, c : sum + c, 0, before)
<1>1. Len(counts) \in Nat /\ DOMAIN counts = 1..Len(counts) /\ counts[n] \in Nat
  OBVIOUS
<1>2. before \in Seq(Nat)
  <2>1. 1 \in 1..(Len(counts) + 1) /\ n - 1 \in (1 - 1)..Len(counts)
    BY <1>1
  <2> QED BY <2>1, SubSeqProperties
<1>3. Starts(counts)[n] = a
  <2>1. Starts(counts) = [m \in DOMAIN counts |-> FoldLeft(LAMBDA sum, c : sum + c, 0, SubSeq(counts, 1, m - 1))]
    BY Zenon DEF Starts, FoldLeft, MapThenFoldSet
  <2>2. n \in DOMAIN counts
    BY <1>1
  <2> QED BY <2>1, <2>2, Zenon DEF FoldLeft, MapThenFoldSet
<1> HIDE DEF before
<1>4. PICK F : F = Fold("sum", 0, before)
  OBVIOUS
<1>5. a = F[DOMAIN before]
  BY <1>4, SumFolds
<1> HIDE DEF a
<1>6. IsList(before) /\ \A i \in 1..Len(before) : before[i] \in Nat
  BY <1>2, SeqIsList
<1>7. Len(before) \in Nat /\ DOMAIN before = 1..Len(before)
  BY <1>6, IsListMeans
<1>8. /\ F[{}] = 0
      /\ \A s \in SUBSET (1..Len(before)) : s # {} => Max(s) \in s /\ F[s] = Step("sum", F[s \ {Max(s)}], before[Max(s)])
  <2>1. Takes(F, "sum", 0, before)
    BY <1>4, <1>6, FoldIs
  <2> QED BY <2>1 DEF Takes
<1>9. \A c, x \in Nat : Step("sum", c, x) \in Nat
  <2>1. \A c, x : Step("sum", c, x) = c + x
    BY Zenon DEF Step
  <2> QED BY <2>1
<1> DEFINE P == {s \in SUBSET (1..Len(before)) : F[s] \in Nat}
<1>10. {} \in P
  BY <1>8
<1>11. \A s \in SUBSET (1..Len(before)) : s # {} /\ s \ {Max(s)} \in P => s \in P
  <2>1. SUFFICES ASSUME NEW s \in SUBSET (1..Len(before)), s # {}, F[s \ {Max(s)}] \in Nat PROVE F[s] \in Nat
    OBVIOUS
  <2>2. PICK m : m = Max(s)
    OBVIOUS
  <2>3. m \in 1..Len(before) /\ F[s] = Step("sum", F[s \ {m}], before[m])
    BY <1>8, <2>1, <2>2
  <2>4. before[m] \in Nat /\ F[s \ {m}] \in Nat
    BY <1>6, <2>1, <2>2, <2>3
  <2> QED BY <1>9, <2>3, <2>4
<1>12. SUBSET (1..Len(before)) \subseteq P
  <2> HIDE DEF P
  <2> QED BY <1>7, <1>10, <1>11, FoldInduction
<1>13. a \in Nat
  BY <1>5, <1>7, <1>12
<1>14. PICK c \in Nat : c = counts[n]
  BY <1>1
<1>15. PICK list : list = Slice(flat, counts, n)
  OBVIOUS
<1>16. list = SubSeq(flat, a + 1, a + c)
  BY <1>3, <1>14, <1>15 DEF Slice
<1>17. list = [i \in 1..c |-> flat[i + a]]
  BY <1>13, <1>16
<1>18. DOMAIN list = 1..c /\ list = [i \in 1..c |-> list[i]]
  BY <1>17
<1> QED BY <1>15, <1>18, ListIs

-----------------------------------------------------------------------------
(* The objects that are restored, and those that are changed.              *)

\* What is restored from a snapshot is a state.
LEMMA RestoredIs ==
  ASSUME NEW snap, IsSnapshot(snap), NEW places \in Seq(Int \X Int), NEW s \in FromSnapshot(snap, places)
  PROVE  IsState(s) /\ Ascending(s.nodes)
<1> DEFINE topology == [n \in DOMAIN places |-> [id |-> snap.topologyIds[n], place |-> places[n]]]
           at(id) == CHOOSE n \in DOMAIN snap.wayIds : snap.wayIds[n] = id
           way(n) == [snap.wayAttributes[n] EXCEPT !.id = snap.wayIds[n], !.nodes = Slice(snap.wayNodes, snap.wayNodeCounts, n),
                                              !.name = IF snap.wayNames[n] = None THEN None ELSE snap.names[snap.wayNames[n]]]
<1>1. /\ Len(places) = Len(snap.topologyIds) /\ DOMAIN s = DOMAIN NothingScanned
      /\ s.nodes = MergedNodes(topology, snap.otherNodes)
      /\ s.ways = [id \in Range(snap.wayIds) |-> way(at(id))]
      /\ Ascending(s.nodes)
  <2>1. PICK nodes : nodes = MergedNodes(topology, snap.otherNodes)
    OBVIOUS
  <2>2. PICK ways : ways = [id \in Range(snap.wayIds) |-> way(at(id))]
    BY Zenon
  <2> DEFINE other(id) == CHOOSE n \in DOMAIN snap.otherWayIds : snap.otherWayIds[n] = id
  <2>3. PICK others : others = [id \in Range(snap.otherWayIds) |-> Slice(snap.otherWayNodes, snap.otherWayCounts, other(id))]
    OBVIOUS
  <2>4. PICK restrictions : restrictions = [id \in {r.relation : r \in Range(snap.restrictions)} |->
                                 SelectSeq(snap.restrictions, LAMBDA r : r.relation = id)]
    OBVIOUS
  <2>5. PICK r : r = [nodes |-> nodes, signals |-> Range(snap.signals), junctions |-> snap.junctions,
             ways |-> ways, others |-> others, structures |-> Range(snap.structures),
             restrictions |-> restrictions, rules |-> snap.rules, admin |-> snap.admin, otherRelations |-> Range(snap.otherRelations)]
    OBVIOUS
  <2>6. FromSnapshot(snap, places) = IF Len(places) # Len(snap.topologyIds) \/ ~Ascending(nodes) \/ ~IsInjective(snap.rules) THEN {} ELSE {r}
    BY <2>1, <2>2, <2>3, <2>4, <2>5, Zenon DEF FromSnapshot
  <2>7. Len(places) = Len(snap.topologyIds) /\ s = r /\ Ascending(nodes)
    BY <2>6
  <2>8. DOMAIN r = DOMAIN NothingScanned /\ r.nodes = nodes /\ r.ways = ways
    BY <2>5 DEF NothingScanned
  <2> HIDE DEF topology, at, way
  <2> QED BY <2>1, <2>2, <2>7, <2>8
<1>2. topology \in Seq(NodeType)
  <2>0. Len(places) = Len(snap.topologyIds) /\ snap.topologyIds \in Seq(Int)
    BY <1>1 DEF IsSnapshot
  <2>1. PICK k \in Nat : k = Len(places)
    OBVIOUS
  <2>2. DOMAIN places = 1..k /\ \A n \in 1..k : places[n] \in Int \X Int /\ snap.topologyIds[n] \in Int
    BY <2>0, <2>1
  <2>3. topology \in [1..k -> NodeType]
    BY <2>2 DEF NodeType
  <2> HIDE DEF topology, NodeType
  <2>4. \A f \in [1..k -> NodeType] : f \in Seq(NodeType)
    OBVIOUS
  <2> QED BY <2>3, <2>4
<1>3. s.nodes \in Seq(NodeType)
  <2> HIDE DEF topology
  <2>1. snap.otherNodes \in Seq(NodeType) /\ s.nodes = MergedNodes(topology, snap.otherNodes)
    BY <1>1 DEF IsSnapshot
  <2> QED BY <1>2, <2>1, MergedAre
<1>4. snap.wayIds \in Seq(Int) /\ DOMAIN snap.wayIds = 1..Len(snap.wayIds) /\ IsList(snap.wayIds)
  BY SeqIsList DEF IsSnapshot
<1>5. DOMAIN s.ways = Range(snap.wayIds) /\ Range(snap.wayIds) \in SUBSET Int /\ IsFiniteSet(Range(snap.wayIds))
  <2>1. Range(snap.wayIds) \in SUBSET Int
    BY <1>4 DEF Range
  <2> HIDE DEF Range, way, at
  <2> QED BY <1>1, <1>4, <2>1, RangeIsFinite
<1>6. ASSUME NEW id \in Range(snap.wayIds) PROVE "nodes" \in DOMAIN s.ways[id] /\ IsList(s.ways[id].nodes)
  <2>1. PICK n : n = at(id)
    OBVIOUS
  <2>2. n \in 1..Len(snap.wayIds)
    <3>1. \E m \in DOMAIN snap.wayIds : snap.wayIds[m] = id
      BY <1>6 DEF Range
    <3> QED BY <1>4, <2>1, <3>1
  <2>3. PICK list : list = Slice(snap.wayNodes, snap.wayNodeCounts, n)
    OBVIOUS
  <2>4. IsList(list)
    BY <2>2, <2>3, SliceIs DEF IsSnapshot
  <2>5. PICK w : w = snap.wayAttributes[n]
    OBVIOUS
  <2>6. "nodes" \in DOMAIN w
    BY <2>2, <2>5 DEF IsSnapshot
  <2>7. PICK name : name = IF snap.wayNames[n] = None THEN None ELSE snap.names[snap.wayNames[n]]
    OBVIOUS
  <2>8. PICK to : to = [w EXCEPT !.id = snap.wayIds[n], !.nodes = list, !.name = name]
    OBVIOUS
  <2>9. way(n) = to
    BY <2>3, <2>5, <2>7, <2>8, Zenon
  <2>10. s.ways[id] = to
    <3> HIDE DEF way, at, Range
    <3> QED BY <1>1, <2>1, <2>9
  <2>11. "nodes" \in DOMAIN to /\ to.nodes = list
    BY <2>6, <2>8
  <2> QED BY <2>4, <2>10, <2>11
<1> HIDE DEF Range, way, at
<1> QED BY <1>1, <1>3, <1>5, <1>6 DEF IsState

\* What the edges depend on of a table of ways.
LEMMA StateOf ==
  ASSUME NEW s, IsState(s), NEW t, DOMAIN t = DOMAIN s, t.nodes \in Seq(NodeType),
         DOMAIN t.ways \in SUBSET Int, IsFiniteSet(DOMAIN t.ways),
         \A id \in DOMAIN t.ways : "nodes" \in DOMAIN t.ways[id] /\ IsList(t.ways[id].nodes)
  PROVE  IsState(t)
BY DEF IsState

\* Entering a way into the table, and leaving it out.
LEMMA WayTables ==
  ASSUME NEW s, IsState(s), NEW id \in Int, NEW way, "nodes" \in DOMAIN way, IsList(way.nodes)
  PROVE  /\ \A t : DOMAIN t = DOMAIN s /\ t.nodes = s.nodes /\ t.ways = With(s.ways, id, way) => IsState(t)
         /\ \A t : DOMAIN t = DOMAIN s /\ t.nodes = s.nodes /\ t.ways = Without(s.ways, id) => IsState(t)
<1>1. PICK f : f = s.ways
  OBVIOUS
<1>2. DOMAIN f \in SUBSET Int /\ IsFiniteSet(DOMAIN f) /\ \A i \in DOMAIN f : "nodes" \in DOMAIN f[i] /\ IsList(f[i].nodes)
  BY <1>1 DEF IsState
<1>3. s.nodes \in Seq(NodeType)
  BY DEF IsState
<1>4. ASSUME NEW t, DOMAIN t = DOMAIN s, t.nodes = s.nodes, t.ways = With(s.ways, id, way) PROVE IsState(t)
  <2>1. PICK g : g = With(f, id, way)
    OBVIOUS
  <2>2. g = [i \in DOMAIN f \cup {id} |-> IF i = id THEN way ELSE f[i]]
    BY <2>1, Zenon DEF With
  <2>3. DOMAIN g = DOMAIN f \cup {id} /\ g[id] = way /\ \A i \in DOMAIN f : i # id => g[i] = f[i]
    BY <2>2
  <2>4. IsFiniteSet(DOMAIN f \cup {id})
    BY <1>2, FS_AddElement
  <2>5. \A i \in DOMAIN g : "nodes" \in DOMAIN g[i] /\ IsList(g[i].nodes)
    BY <1>2, <2>3
  <2>6. t.ways = g
    BY <1>1, <1>4, <2>1
  <2> QED BY <1>2, <1>3, <1>4, <2>3, <2>4, <2>5, <2>6, StateOf
<1>5. ASSUME NEW t, DOMAIN t = DOMAIN s, t.nodes = s.nodes, t.ways = Without(s.ways, id) PROVE IsState(t)
  <2>1. PICK g : g = Without(f, id)
    OBVIOUS
  <2>2. g = [i \in DOMAIN f \cap (DOMAIN f \ {id}) |-> f[i]]
    BY <2>1, Zenon DEF Without, Only
  <2>3. DOMAIN g \subseteq DOMAIN f /\ \A i \in DOMAIN g : g[i] = f[i]
    BY <2>2
  <2>4. IsFiniteSet(DOMAIN g)
    BY <1>2, <2>3, FS_Subset
  <2>5. \A i \in DOMAIN g : "nodes" \in DOMAIN g[i] /\ IsList(g[i].nodes)
    BY <1>2, <2>3
  <2>6. t.ways = g
    BY <1>1, <1>5, <2>1
  <2> QED BY <1>2, <1>3, <1>5, <2>3, <2>4, <2>5, <2>6, StateOf
<1> QED BY <1>4, <1>5

\* Tags and relations are no matter of the ways.
LEMMA OtherFields ==
  ASSUME NEW s, IsState(s)
  PROVE  /\ \A id, tags : IsState(SetNodeTags(s, id, tags)) /\ SetNodeTags(s, id, tags).nodes = s.nodes
         /\ \A r : IsState(UpsertRelation(s, r))
         /\ \A id : IsState(DeleteRelation(s, id))
<1>1. \A t : DOMAIN t = DOMAIN s /\ t.nodes = s.nodes /\ t.ways = s.ways => IsState(t)
  BY DEF IsState
<1>2. ASSUME NEW id, NEW tags PROVE IsState(SetNodeTags(s, id, tags)) /\ SetNodeTags(s, id, tags).nodes = s.nodes
  <2>1. PICK signals : signals = IF tags.signal THEN s.signals \cup {id} ELSE s.signals \ {id}
    OBVIOUS
  <2>2. PICK junctions : junctions = IF tags.junction = None THEN Without(s.junctions, id) ELSE With(s.junctions, id, tags.junction)
    OBVIOUS
  <2>3. PICK t : t = [s EXCEPT !.signals = signals, !.junctions = junctions]
    OBVIOUS
  <2>4. t = SetNodeTags(s, id, tags)
    BY <2>1, <2>2, <2>3, Zenon DEF SetNodeTags
  <2>5. DOMAIN t = DOMAIN s /\ t.nodes = s.nodes /\ t.ways = s.ways
    BY <2>3 DEF IsState, NothingScanned
  <2> QED BY <1>1, <2>4, <2>5
<1>3. ASSUME NEW r PROVE IsState(UpsertRelation(s, r))
  <2>1. PICK found : found = WithCandidates(s.rules, Candidates(r))
    OBVIOUS
  <2>2. PICK restrictions : restrictions = IF found.list = << >> THEN Without(s.restrictions, r.id) ELSE With(s.restrictions, r.id, found.list)
    OBVIOUS
  <2>3. PICK admin : admin = IF r.tags.type = "boundary" THEN With(s.admin, r.id, IdsOf(r.members)) ELSE Without(s.admin, r.id)
    OBVIOUS
  <2>4. PICK t : t = [s EXCEPT !.restrictions = Without(s.restrictions, r.id), !.otherRelations = s.otherRelations \cup {r.id}, !.admin = admin]
    OBVIOUS
  <2>5. PICK u : u = [s EXCEPT !.restrictions = With(s.restrictions, r.id, found.list), !.rules = found.sets,
                     !.otherRelations = s.otherRelations \ {r.id}, !.admin = Without(s.admin, r.id)]
    OBVIOUS
  <2>6. UpsertRelation(s, r) = IF found.list = << >> THEN t ELSE u
    BY <2>1, <2>3, <2>4, <2>5, Zenon DEF UpsertRelation
  <2>7. DOMAIN t = DOMAIN s /\ t.nodes = s.nodes /\ t.ways = s.ways
    BY <2>4 DEF IsState, NothingScanned
  <2>8. DOMAIN u = DOMAIN s /\ u.nodes = s.nodes /\ u.ways = s.ways
    BY <2>5 DEF IsState, NothingScanned
  <2> QED BY <1>1, <2>6, <2>7, <2>8
<1>4. ASSUME NEW id PROVE IsState(DeleteRelation(s, id))
  <2>1. PICK t : t = [s EXCEPT !.restrictions = Without(s.restrictions, id), !.otherRelations = s.otherRelations \ {id}, !.admin = Without(s.admin, id)]
    OBVIOUS
  <2>2. t = DeleteRelation(s, id)
    BY <2>1, Zenon DEF DeleteRelation
  <2>3. DOMAIN t = DOMAIN s /\ t.nodes = s.nodes /\ t.ways = s.ways
    BY <2>1 DEF IsState, NothingScanned
  <2> QED BY <1>1, <2>2, <2>3
<1> QED BY <1>2, <1>3, <1>4

\* Ways come and go.
LEMMA WaysKeep ==
  ASSUME NEW s, IsState(s)
  PROVE  /\ \A w : w.id \in Int /\ IsList(w.nodes) => IsState(UpsertWay(s, w)) /\ UpsertWay(s, w).nodes = s.nodes
         /\ \A id \in Int : IsState(DeleteWay(s, id)) /\ DeleteWay(s, id).nodes = s.nodes
<1>1. ASSUME NEW w, w.id \in Int, IsList(w.nodes) PROVE IsState(UpsertWay(s, w)) /\ UpsertWay(s, w).nodes = s.nodes
  <2>1. PICK one : one = WithRules(s.rules, w.tags.forwardRules)
    OBVIOUS
  <2>2. PICK both : both = WithRules(one, w.tags.reverseRules)
    OBVIOUS
  <2>3. PICK way : way = [id |-> w.id, nodes |-> w.nodes, name |-> w.tags.name,
               forward |-> w.tags.forward, reverse |-> w.tags.reverse,
               forwardRule |-> NumberOf(both, w.tags.forwardRules), reverseRule |-> NumberOf(both, w.tags.reverseRules)]
    OBVIOUS
  <2>4. PICK structures : structures = IF w.tags.structure THEN s.structures \cup {w.id} ELSE s.structures \ {w.id}
    OBVIOUS
  <2>5. PICK t : t = [s EXCEPT !.rules = both, !.ways = With(s.ways, w.id, way), !.others = Without(s.others, w.id), !.structures = structures]
    OBVIOUS
  <2>6. PICK u : u = [s EXCEPT !.ways = Without(s.ways, w.id), !.structures = s.structures \ {w.id}, !.others = With(s.others, w.id, w.nodes)]
    OBVIOUS
  <2>7. UpsertWay(s, w) = IF w.tags.routable /\ Len(w.nodes) >= 2 THEN t ELSE u
    BY <2>1, <2>2, <2>3, <2>4, <2>5, <2>6, Zenon DEF UpsertWay
  <2>8. DOMAIN t = DOMAIN s /\ t.nodes = s.nodes /\ t.ways = With(s.ways, w.id, way)
    BY <2>5 DEF IsState, NothingScanned
  <2>9. DOMAIN u = DOMAIN s /\ u.nodes = s.nodes /\ u.ways = Without(s.ways, w.id)
    BY <2>6 DEF IsState, NothingScanned
  <2>10. "nodes" \in DOMAIN way /\ IsList(way.nodes)
    BY <1>1, <2>3
  <2>11. IsState(t) /\ IsState(u)
    BY <1>1, <2>8, <2>9, <2>10, WayTables
  <2> QED BY <2>7, <2>8, <2>9, <2>11
<1>2. ASSUME NEW id \in Int PROVE IsState(DeleteWay(s, id)) /\ DeleteWay(s, id).nodes = s.nodes
  <2>1. PICK t : t = [s EXCEPT !.ways = Without(s.ways, id), !.others = Without(s.others, id), !.structures = s.structures \ {id}]
    OBVIOUS
  <2>2. t = DeleteWay(s, id)
    BY <2>1, Zenon DEF DeleteWay
  <2>3. DOMAIN t = DOMAIN s /\ t.nodes = s.nodes /\ t.ways = Without(s.ways, id)
    BY <2>1 DEF IsState, NothingScanned
  <2>4. PICK way : way = [nodes |-> << >>]
    OBVIOUS
  <2>5. "nodes" \in DOMAIN way /\ IsList(way.nodes)
    BY <2>4 DEF IsList
  <2> QED BY <2>2, <2>3, <2>5, WayTables
<1> QED BY <1>1, <1>2

\* New numbers of the rules leave the ways where they are.
LEMMA RenumberKeeps ==
  ASSUME NEW s, IsState(s)
  PROVE  IsState(RenumberRuleSets(s)) /\ RenumberRuleSets(s).nodes = s.nodes
<1>0. PICK sets : RenumberRuleSets(s) = Renumbered(s, sets)
  BY Zenon DEF RenumberRuleSets
<1> DEFINE new(old) == IF old = None THEN None ELSE NumberOf(sets, s.rules[old])
           table == [id \in DOMAIN s.ways |-> [s.ways[id] EXCEPT !.forwardRule = new(s.ways[id].forwardRule), !.reverseRule = new(s.ways[id].reverseRule)]]
           bans == [id \in DOMAIN s.restrictions |-> [n \in DOMAIN s.restrictions[id] |->
                      [s.restrictions[id][n] EXCEPT !.rule = new(s.restrictions[id][n].rule)]]]
<1>1. PICK t : t = [s EXCEPT !.rules = sets, !.ways = table, !.restrictions = bans]
  BY Zenon
<1>2. t = Renumbered(s, sets)
  BY <1>1, Zenon DEF Renumbered
<1> HIDE DEF bans, new
<1>3. DOMAIN table = DOMAIN s.ways /\ \A id \in DOMAIN s.ways : DOMAIN table[id] = DOMAIN s.ways[id] /\ table[id].nodes = s.ways[id].nodes
  <2>1. ASSUME NEW id \in DOMAIN s.ways PROVE DOMAIN table[id] = DOMAIN s.ways[id] /\ table[id].nodes = s.ways[id].nodes
    <3>1. PICK w : w = s.ways[id]
      OBVIOUS
    <3>2. PICK a, b : a = new(w.forwardRule) /\ b = new(w.reverseRule)
      OBVIOUS
    <3>3. table[id] = [w EXCEPT !.forwardRule = a, !.reverseRule = b]
      BY <3>1, <3>2
    <3>4. "nodes" \in DOMAIN w
      BY <3>1 DEF IsState
    <3>5. PICK to : to = [w EXCEPT !.forwardRule = a, !.reverseRule = b]
      OBVIOUS
    <3>6. DOMAIN to = DOMAIN w /\ to.nodes = w.nodes
      BY <3>4, <3>5
    <3> HIDE DEF table
    <3> QED BY <3>1, <3>3, <3>5, <3>6
  <2> QED BY <2>1
<1> HIDE DEF table
<1>4. DOMAIN t = DOMAIN s /\ t.nodes = s.nodes /\ t.ways = table
  BY <1>1 DEF IsState, NothingScanned
<1>5. t.nodes \in Seq(NodeType) /\ DOMAIN table \in SUBSET Int /\ IsFiniteSet(DOMAIN table)
      /\ \A id \in DOMAIN table : "nodes" \in DOMAIN table[id] /\ IsList(table[id].nodes)
  BY <1>3, <1>4 DEF IsState
<1> QED BY <1>0, <1>2, <1>4, <1>5, StateOf

\* Nodes of which each has a number above those before it.
IdsAscend(nodes) == \A i, j \in 1..Len(nodes) : i < j => nodes[i].id < nodes[j].id

\* What is checked of neighbours holds of any two nodes.
LEMMA AscendingMeans ==
  ASSUME NEW nodes \in Seq(NodeType), Ascending(nodes)
  PROVE  IdsAscend(nodes)
<1>1. PICK k \in Nat : k = Len(nodes)
  OBVIOUS
<1>2. \A n \in 1..k : nodes[n].id \in Int
  <2>1. \A n \in 1..k : nodes[n] \in NodeType
    BY <1>1
  <2> QED BY <2>1 DEF NodeType
<1>3. PICK h : h = [n \in 1..k |-> nodes[n].id]
  OBVIOUS
<1>4. h \in [1..k -> Int] /\ \A n \in 2..k : h[n - 1] < h[n]
  BY <1>1, <1>2, <1>3 DEF Ascending
<1> QED BY <1>1, <1>3, <1>4, RisesByStep DEF IdsAscend

\* The numbers of what is listed.
LEMMA IdsAre ==
  ASSUME NEW nodes \in Seq(NodeType)
  PROVE  {nodes[n].id : n \in DOMAIN nodes} \in SUBSET Int /\ IsFiniteSet({nodes[n].id : n \in DOMAIN nodes})
<1>1. PICK k \in Nat : k = Len(nodes)
  OBVIOUS
<1>2. DOMAIN nodes = 1..k /\ \A n \in 1..k : nodes[n] \in NodeType
  BY <1>1
<1>3. PICK ids : ids = [n \in 1..k |-> nodes[n].id]
  OBVIOUS
<1>4. DOMAIN ids = 1..k /\ ids = [n \in 1..k |-> ids[n]] /\ \A n \in 1..k : ids[n] = nodes[n].id /\ ids[n] \in Int
  BY <1>2, <1>3 DEF NodeType
<1>5. IsList(ids) /\ \A e : e \in Range(ids) <=> \E n \in 1..k : ids[n] = e
  BY <1>4, ListIs
<1>6. IsFiniteSet(Range(ids))
  BY <1>5, RangeIsFinite
<1>7. {nodes[n].id : n \in DOMAIN nodes} = Range(ids)
  <2> HIDE DEF Range
  <2>1. \A e \in {nodes[n].id : n \in DOMAIN nodes} : e \in Range(ids)
    BY <1>2, <1>4, <1>5
  <2>2. \A e \in Range(ids) : e \in {nodes[n].id : n \in DOMAIN nodes}
    BY <1>2, <1>4, <1>5
  <2> QED BY <2>1, <2>2
<1>8. {nodes[n].id : n \in DOMAIN nodes} \in SUBSET Int
  BY <1>2 DEF NodeType
<1> QED BY <1>6, <1>7, <1>8

\* A list of nodes made by the numbers of them.
LEMMA NodesByIds ==
  ASSUME NEW S \in SUBSET Int, IsFiniteSet(S), NEW f, \A id \in S : f[id] \in NodeType /\ f[id].id = id
  PROVE  /\ [n \in DOMAIN Sorted(S) |-> f[Sorted(S)[n]]] \in Seq(NodeType)
         /\ IdsAscend([n \in DOMAIN Sorted(S) |-> f[Sorted(S)[n]]])
<1>1. PICK ids : ids = Sorted(S)
  OBVIOUS
<1>2. Lists(ids, S)
  BY <1>1, Sorting
<1>3. Cardinality(S) \in Nat /\ DOMAIN ids = 1..Cardinality(S) /\ \A n \in 1..Cardinality(S) : ids[n] \in S
  BY <1>2, FS_CardinalityType DEF Lists
<1>4. PICK k \in Nat : k = Cardinality(S)
  BY <1>3
<1>5. PICK list : list = [n \in DOMAIN ids |-> f[ids[n]]]
  OBVIOUS
<1>6. list \in [1..k -> NodeType] /\ \A n \in 1..k : list[n].id = ids[n]
  BY <1>3, <1>4, <1>5
<1>7. list \in Seq(NodeType) /\ Len(list) = k
  <2>1. \A g \in [1..k -> NodeType] : g \in Seq(NodeType) /\ Len(g) = k
    OBVIOUS
  <2> QED BY <1>6, <2>1
<1>8. \A m, n \in 1..k : m < n => ids[m] < ids[n]
  BY <1>1, <1>4, Sorting
<1>9. IdsAscend(list)
  BY <1>6, <1>7, <1>8 DEF IdsAscend
<1> QED BY <1>1, <1>5, <1>7, <1>9

\* Nodes brought in order.
LEMMA NormalizedAre ==
  ASSUME NEW nodes \in Seq(NodeType)
  PROVE  NormalizeNodes(nodes) \in Seq(NodeType) /\ IdsAscend(NormalizeNodes(nodes))
<1> DEFINE S == {nodes[n].id : n \in DOMAIN nodes}
           at(id) == {n \in DOMAIN nodes : nodes[n].id = id}
           last(id) == Max(at(id))
<1>1. S \in SUBSET Int /\ IsFiniteSet(S)
  BY IdsAre
<1>2. PICK k \in Nat : k = Len(nodes)
  OBVIOUS
<1>3. DOMAIN nodes = 1..k /\ \A n \in 1..k : nodes[n] \in NodeType
  BY <1>2
<1>4. PICK f : f = [id \in S |-> nodes[last(id)]]
  OBVIOUS
<1>5. ASSUME NEW id \in S PROVE f[id] \in NodeType /\ f[id] = nodes[last(id)] /\ f[id].id = id
  <2>1. at(id) \in SUBSET (1..k) /\ at(id) # {}
    BY <1>3
  <2>2. last(id) \in at(id)
    <3> HIDE DEF at
    <3> QED BY <1>2, <2>1, MaxIsGreatest
  <2>3. f[id] = nodes[last(id)]
    <3> HIDE DEF last
    <3> QED BY <1>4
  <2> HIDE DEF last
  <2> QED BY <1>3, <2>2, <2>3
<1>6. PICK ids : ids = Sorted(S)
  OBVIOUS
<1>7. Lists(ids, S)
  BY <1>1, <1>6, Sorting
<1>8. DOMAIN ids = 1..Cardinality(S) /\ \A n \in DOMAIN ids : ids[n] \in S
  <2> HIDE DEF S
  <2> QED BY <1>7 DEF Lists
<1> DEFINE sorted == [n \in DOMAIN ids |-> nodes[last(ids[n])]]
<1>9. NormalizeNodes(nodes) = IF Ascending(nodes) THEN nodes ELSE sorted
  BY <1>6, Zenon DEF NormalizeNodes
<1> HIDE DEF last, at, S
<1>10. sorted = [n \in DOMAIN ids |-> f[ids[n]]]
  BY <1>5, <1>8
<1>11. sorted \in Seq(NodeType) /\ IdsAscend(sorted)
  BY <1>1, <1>5, <1>6, <1>10, NodesByIds
<1> QED BY <1>9, <1>11, AscendingMeans

\* The nodes of a file are put in the place of those before.
LEMMA NodesMerge ==
  ASSUME NEW nodes \in Seq(NodeType), NEW moved, DOMAIN moved \in SUBSET Int, IsFiniteSet(DOMAIN moved),
         \A id \in DOMAIN moved : moved[id] \in SUBSET NodeType /\ \A node \in moved[id] : node.id = id
  PROVE  MergeNodeUpdates(nodes, moved) \in Seq(NodeType) /\ IdsAscend(MergeNodeUpdates(nodes, moved))
<1> DEFINE was(id) == {nodes[n] : n \in {n \in DOMAIN nodes : nodes[n].id = id}}
           of(id) == IF id \in DOMAIN moved THEN moved[id] ELSE was(id)
           A == {nodes[n].id : n \in DOMAIN nodes}
           S == {id \in DOMAIN moved \cup A : of(id) # {}}
<1>1. A \in SUBSET Int /\ IsFiniteSet(A)
  BY IdsAre
<1>2. PICK k \in Nat : k = Len(nodes)
  OBVIOUS
<1>3. DOMAIN nodes = 1..k /\ \A n \in 1..k : nodes[n] \in NodeType
  BY <1>2
<1>4. \A id : was(id) \in SUBSET NodeType /\ \A node \in was(id) : node.id = id
  BY <1>3
<1> HIDE DEF was, A
<1>5. \A id : of(id) \in SUBSET NodeType /\ \A node \in of(id) : node.id = id
  BY <1>4
<1>6. PICK ids : ids = Sorted(S)
  OBVIOUS
<1>7. MergeNodeUpdates(nodes, moved) = [n \in DOMAIN ids |-> One(of(ids[n]))]
  BY <1>6, Zenon DEF MergeNodeUpdates, was, A
<1> HIDE DEF of
<1>8. S \in SUBSET Int /\ IsFiniteSet(S)
  <2>1. IsFiniteSet(DOMAIN moved \cup A)
    BY <1>1, FS_Union
  <2>2. S \in SUBSET (DOMAIN moved \cup A)
    OBVIOUS
  <2> QED BY <1>1, <2>1, <2>2, FS_Subset
<1>9. PICK f : f = [id \in S |-> One(of(id))]
  OBVIOUS
<1>10. ASSUME NEW id \in S PROVE f[id] \in NodeType /\ f[id] = One(of(id)) /\ f[id].id = id
  <2>1. \A T : T # {} => One(T) \in T
    BY Zenon DEF One
  <2>2. of(id) # {} /\ f[id] = One(of(id))
    BY <1>9
  <2>3. PICK T : T = of(id)
    OBVIOUS
  <2>4. T \in SUBSET NodeType /\ \A node \in T : node.id = id
    BY <1>5, <2>3
  <2>5. One(T) \in T
    BY <2>1, <2>2, <2>3
  <2> HIDE DEF S
  <2> QED BY <2>2, <2>3, <2>4, <2>5
<1> HIDE DEF S
<1>11. Lists(ids, S)
  BY <1>6, <1>8, Sorting
<1>12. DOMAIN ids = 1..Cardinality(S) /\ \A n \in DOMAIN ids : ids[n] \in S
  BY <1>11 DEF Lists
<1>13. [n \in DOMAIN ids |-> One(of(ids[n]))] = [n \in DOMAIN ids |-> f[ids[n]]]
  BY <1>10, <1>12
<1> QED BY <1>6, <1>7, <1>8, <1>10, <1>13, NodesByIds

\* A scanned object.
LEMMA ScannedIs ==
  ASSUME NEW s, IsState(s), NEW o, IsObject(o)
  PROVE  IsState(InsertScanned(s, o))
<1>1. \A id, tags : IsState(SetNodeTags(s, id, tags)) /\ SetNodeTags(s, id, tags).nodes = s.nodes
  BY OtherFields
<1>2. CASE o.kind = "node"
  <2>1. PICK t : t = SetNodeTags(s, o.id, o.tags)
    OBVIOUS
  <2>2. PICK node : node = [id |-> o.id, place |-> o.place]
    OBVIOUS
  <2>3. node \in NodeType
    BY <1>2, <2>2 DEF IsObject, NodeType
  <2>4. PICK u : u = [t EXCEPT !.nodes = Append(t.nodes, node)]
    OBVIOUS
  <2>5. InsertScanned(s, o) = u
    BY <1>2, <2>1, <2>2, <2>4, Zenon DEF InsertScanned
  <2>6. IsState(t)
    BY <1>1, <2>1
  <2>7. DOMAIN u = DOMAIN t /\ u.ways = t.ways /\ u.nodes = Append(t.nodes, node)
    BY <2>4, <2>6 DEF IsState, NothingScanned
  <2>8. u.nodes \in Seq(NodeType)
    BY <2>3, <2>6, <2>7, AppendProperties DEF IsState
  <2> QED BY <2>5, <2>6, <2>7, <2>8 DEF IsState
<1>3. CASE o.kind = "way"
  <2>1. InsertScanned(s, o) = UpsertWay(s, o)
    BY <1>3, Zenon DEF InsertScanned
  <2>2. o.id \in Int /\ o.nodes \in Seq(Int)
    BY <1>3 DEF IsObject
  <2>3. IsList(o.nodes)
    BY <2>2, SeqIsList
  <2> QED BY <2>1, <2>2, <2>3, WaysKeep
<1>4. CASE o.kind = "relation"
  <2>1. InsertScanned(s, o) = UpsertRelation(s, o)
    BY <1>4, Zenon DEF InsertScanned
  <2> QED BY <2>1, OtherFields
<1> QED BY <1>2, <1>3, <1>4 DEF IsObject, Kinds

\* Nodes in the place of those of a state.
LEMMA NodesReplaced ==
  ASSUME NEW s, IsState(s), NEW nodes \in Seq(NodeType)
  PROVE  IsState([s EXCEPT !.nodes = nodes])
<1>1. PICK t : t = [s EXCEPT !.nodes = nodes]
  OBVIOUS
<1>2. DOMAIN t = DOMAIN s /\ t.nodes = nodes /\ t.ways = s.ways
  BY <1>1 DEF IsState, NothingScanned
<1>3. IsState(t)
  BY <1>2 DEF IsState
<1> QED BY <1>1, <1>3

\* Between two updates the nodes are in the order of their numbers.
IsScanned(s) == IsState(s) /\ IdsAscend(s.nodes)

\* New nodes in the order of their numbers settle a state again.
LEMMA Settling ==
  ASSUME NEW s, IsState(s), NEW nodes \in Seq(NodeType), IdsAscend(nodes)
  PROVE  IsScanned(RenumberRuleSets([s EXCEPT !.nodes = nodes]))
<1>1. PICK t : t = [s EXCEPT !.nodes = nodes]
  OBVIOUS
<1>2. IsState(t) /\ t.nodes = nodes
  BY <1>1, NodesReplaced DEF IsState, NothingScanned
<1>3. IsState(RenumberRuleSets(t)) /\ RenumberRuleSets(t).nodes = t.nodes
  BY <1>2, RenumberKeeps
<1> QED BY <1>1, <1>2, <1>3 DEF IsScanned

\* A scanned extract.
LEMMA ScanIs ==
  ASSUME NEW objects, AreObjects(objects)
  PROVE  IsScanned(ScanPbf(objects))
<1> DEFINE s == FoldLeft(InsertScanned, NothingScanned, objects)
<1>1. ScanPbf(objects) = RenumberRuleSets([s EXCEPT !.nodes = NormalizeNodes(s.nodes)])
  BY Zenon DEF ScanPbf
<1>2. PICK F : F = Fold("scan", NothingScanned, objects)
  OBVIOUS
<1>3. s = F[DOMAIN objects]
  BY <1>2, ScanFolds
<1>4. IsList(objects) /\ \A i \in 1..Len(objects) : IsObject(objects[i])
  <2>1. objects \in Seq(Range(objects)) /\ \A o \in Range(objects) : IsObject(o)
    BY DEF AreObjects
  <2> HIDE DEF Range
  <2> QED BY <2>1, SeqIsList
<1>5. Len(objects) \in Nat /\ DOMAIN objects = 1..Len(objects)
  BY <1>4, IsListMeans
<1>6. /\ F[{}] = NothingScanned
      /\ \A r \in SUBSET (1..Len(objects)) : r # {} => Max(r) \in r /\ F[r] = Step("scan", F[r \ {Max(r)}], objects[Max(r)])
  <2>1. Takes(F, "scan", NothingScanned, objects)
    BY <1>2, <1>4, FoldIs
  <2> QED BY <2>1 DEF Takes
<1>7. IsState(NothingScanned)
  <2>1. PICK t : t = NothingScanned
    OBVIOUS
  <2>2. t.nodes = << >> /\ t.ways = << >> /\ DOMAIN t = DOMAIN NothingScanned
    BY <2>1 DEF NothingScanned
  <2>3. DOMAIN << >> = {} /\ << >> \in Seq(NodeType)
    OBVIOUS
  <2>4. IsState(t)
    BY <2>2, <2>3, FS_EmptySet DEF IsState
  <2> QED BY <2>1, <2>4
<1>8. \A c, x : IsState(c) /\ IsObject(x) => IsState(Step("scan", c, x))
  <2>1. \A c, x : Step("scan", c, x) = InsertScanned(c, x)
    BY Zenon DEF Step
  <2> QED BY <2>1, ScannedIs
<1> DEFINE P == {r \in SUBSET (1..Len(objects)) : IsState(F[r])}
<1>9. {} \in P
  BY <1>6, <1>7
<1>10. \A r \in SUBSET (1..Len(objects)) : r # {} /\ r \ {Max(r)} \in P => r \in P
  <2>1. SUFFICES ASSUME NEW r \in SUBSET (1..Len(objects)), r # {}, IsState(F[r \ {Max(r)}]) PROVE IsState(F[r])
    OBVIOUS
  <2>2. PICK m : m = Max(r)
    OBVIOUS
  <2>3. m \in 1..Len(objects) /\ F[r] = Step("scan", F[r \ {m}], objects[m])
    BY <1>6, <2>1, <2>2
  <2> QED BY <1>4, <1>8, <2>1, <2>2, <2>3
<1>11. SUBSET (1..Len(objects)) \subseteq P
  <2> HIDE DEF P
  <2> QED BY <1>5, <1>9, <1>10, FoldInduction
<1>12. IsState(s)
  BY <1>3, <1>5, <1>11
<1> HIDE DEF s
<1>13. NormalizeNodes(s.nodes) \in Seq(NodeType) /\ IdsAscend(NormalizeNodes(s.nodes))
  BY <1>12, NormalizedAre DEF IsState
<1> QED BY <1>1, <1>12, <1>13, Settling

\* What a file of changes is applied to: a state, and nodes by their ids.
Held(c) ==
  /\ DOMAIN c = {"state", "updates"} /\ IsState(c.state)
  /\ DOMAIN c.updates \in SUBSET Int /\ IsFiniteSet(DOMAIN c.updates)
  /\ \A id \in DOMAIN c.updates : c.updates[id] \in SUBSET NodeType /\ \A node \in c.updates[id] : node.id = id

\* A change leaves the objects what they are.
LEMMA ChangeIs ==
  ASSUME NEW c, Held(c), NEW change, IsChange(change)
  PROVE  Held(ApplyChange(c, change))
<1>1. PICK o : o = change.object
  OBVIOUS
<1>2. o.kind \in Kinds /\ o.id \in Int /\ (change.action # "delete" => IsObject(o))
  BY <1>1 DEF IsChange
<1>3. PICK s : s = c.state
  OBVIOUS
<1>4. IsState(s)
  BY <1>3 DEF Held
<1>5. \A t : IsState(t) => Held([c EXCEPT !.state = t])
  <2>1. SUFFICES ASSUME NEW t, IsState(t) PROVE Held([c EXCEPT !.state = t])
    OBVIOUS
  <2>2. PICK d : d = [c EXCEPT !.state = t]
    OBVIOUS
  <2>3. DOMAIN d = DOMAIN c /\ d.state = t /\ d.updates = c.updates
    BY <2>2 DEF Held
  <2>4. Held(d)
    BY <2>1, <2>3 DEF Held
  <2> QED BY <2>2, <2>4
<1>6. CASE o.kind = "node"
  <2>1. PICK state : state = SetNodeTags(s, o.id, IF change.action = "delete" THEN Untagged ELSE o.tags)
    OBVIOUS
  <2>2. PICK new : new = IF change.action = "delete" THEN {} ELSE {[id |-> o.id, place |-> o.place]}
    OBVIOUS
  <2>3. PICK u : u = c.updates
    OBVIOUS
  <2>4. PICK v : v = With(u, o.id, new)
    OBVIOUS
  <2>5. PICK d : d = [state |-> state, updates |-> v]
    OBVIOUS
  <2>6. ApplyChange(c, change) = d
    BY <1>1, <1>3, <1>6, <2>1, <2>2, <2>3, <2>4, <2>5, Zenon DEF ApplyChange
  <2>7. IsState(state)
    BY <1>4, <2>1, OtherFields
  <2>8. new \in SUBSET NodeType /\ \A node \in new : node.id = o.id
    BY <1>2, <1>6, <2>2 DEF IsObject, NodeType
  <2>9. v = [i \in DOMAIN u \cup {o.id} |-> IF i = o.id THEN new ELSE u[i]]
    BY <2>4, Zenon DEF With
  <2>10. DOMAIN v = DOMAIN u \cup {o.id} /\ \A i \in DOMAIN v : v[i] = IF i = o.id THEN new ELSE u[i]
    BY <2>9
  <2>11. DOMAIN u \in SUBSET Int /\ IsFiniteSet(DOMAIN u) /\ \A i \in DOMAIN u : u[i] \in SUBSET NodeType /\ \A node \in u[i] : node.id = i
    BY <2>3 DEF Held
  <2>12. IsFiniteSet(DOMAIN u \cup {o.id})
    BY <2>11, FS_AddElement
  <2>13. DOMAIN d = {"state", "updates"} /\ d.state = state /\ d.updates = v
    BY <2>5
  <2>14. Held(d)
    BY <1>2, <2>7, <2>8, <2>10, <2>11, <2>12, <2>13 DEF Held
  <2> QED BY <2>6, <2>14
<1>7. CASE o.kind = "way"
  <2>1. PICK t : t = IF change.action = "delete" THEN DeleteWay(s, o.id) ELSE UpsertWay(s, o)
    OBVIOUS
  <2>2. ApplyChange(c, change) = [c EXCEPT !.state = t]
    BY <1>1, <1>3, <1>7, <2>1, Zenon DEF ApplyChange
  <2>3. change.action # "delete" => IsList(o.nodes)
    BY <1>2, <1>7, SeqIsList DEF IsObject
  <2>4. IsState(t)
    BY <1>2, <1>4, <2>1, <2>3, WaysKeep
  <2> QED BY <1>5, <2>2, <2>4
<1>8. CASE o.kind = "relation"
  <2>1. PICK t : t = IF change.action = "delete" THEN DeleteRelation(s, o.id) ELSE UpsertRelation(s, o)
    OBVIOUS
  <2>2. ApplyChange(c, change) = [c EXCEPT !.state = t]
    BY <1>1, <1>3, <1>8, <2>1, Zenon DEF ApplyChange
  <2>3. IsState(t)
    BY <1>4, <2>1, OtherFields
  <2> QED BY <1>5, <2>2, <2>3
<1> QED BY <1>2, <1>6, <1>7, <1>8 DEF Kinds

\* The newest changes of a file, in their order.
LEMMA EffectiveAre ==
  ASSUME NEW changes, AreChanges(changes)
  PROVE  /\ IsList(EffectiveChanges(changes))
         /\ \A i \in 1..Len(EffectiveChanges(changes)) : IsChange(EffectiveChanges(changes)[i])
<1> DEFINE key(n) == KeyOf(changes[n].object)
           newest(n) == \A m \in DOMAIN changes : key(m) = key(n) =>
                          \/ changes[m].version < changes[n].version
                          \/ changes[m].version = changes[n].version /\ m <= n
           kept == {n \in DOMAIN changes : newest(n)}
           R == {p \in kept \X kept : KeyBefore(key(p[1]), key(p[2]))}
<1>1. IsList(changes) /\ \A i \in 1..Len(changes) : IsChange(changes[i])
  <2>1. changes \in Seq(Range(changes)) /\ \A c \in Range(changes) : IsChange(c)
    BY DEF AreChanges
  <2> HIDE DEF Range
  <2> QED BY <2>1, SeqIsList
<1>2. PICK k : k = Len(changes)
  OBVIOUS
<1>3. k \in Nat /\ DOMAIN changes = 1..k
  BY <1>1, <1>2, IsListMeans
<1>4. ASSUME NEW n \in 1..k PROVE key(n) \in Int \X Int
  <2>1. PICK o : o = changes[n].object
    OBVIOUS
  <2>2. o.kind \in {"node", "way", "relation"} /\ o.id \in Int
    BY <1>1, <1>2, <2>1 DEF IsChange, Kinds
  <2>3. KindRank[o.kind] \in Int
    BY <2>2 DEF KindRank
  <2>4. KeyOf(o) \in Int \X Int
    BY <2>2, <2>3 DEF KeyOf
  <2> QED BY <2>1, <2>4
<1> HIDE DEF key
<1>5. \A n \in 1..k : changes[n].version \in Int
  BY <1>1, <1>2 DEF IsChange
<1>6. kept \in SUBSET (1..k) /\ IsFiniteSet(kept)
  <2>1. kept \in SUBSET (1..k)
    BY <1>3
  <2>2. IsFiniteSet(1..k)
    BY <1>3, FS_Interval
  <2> QED BY <2>1, <2>2, FS_Subset
<1>7. \A m, n \in kept : key(m) = key(n) => m = n
  BY <1>3, <1>5, <1>6
<1> HIDE DEF kept
<1>8. \A a, b \in Int \X Int : a # b => KeyBefore(a, b) \/ KeyBefore(b, a)
  BY DEF KeyBefore
<1>9. \A a \in Int \X Int : ~KeyBefore(a, a)
  BY DEF KeyBefore
<1>10. \A a, b, c \in Int \X Int : KeyBefore(a, b) /\ KeyBefore(b, c) => KeyBefore(a, c)
  BY DEF KeyBefore
<1>11. Orders(R, kept)
  <2>1. \A m, n \in kept : <<m, n>> \in R <=> KeyBefore(key(m), key(n))
    OBVIOUS
  <2> HIDE DEF R
  <2>2. \A n \in kept : key(n) \in Int \X Int
    BY <1>4, <1>6
  <2> QED BY <1>7, <1>8, <1>9, <1>10, <2>1, <2>2 DEF Orders
<1>12. PICK order : order = Listed(kept, R)
  OBVIOUS
<1>13. Lists(order, kept)
  BY <1>6, <1>11, <1>12, Arranging
<1>14. Arranged(kept, LAMBDA m, n : KeyBefore(KeyOf(changes[m].object), KeyOf(changes[n].object))) = order
  <2>1. ASSUME NEW x \in kept PROVE {y \in kept : <<y, x>> \in R} = {y \in kept : KeyBefore(key(y), key(x))}
    OBVIOUS
  <2>2. Listed(kept, R) = [n \in 1..Cardinality(kept) |-> CHOOSE x \in kept : Cardinality({y \in kept : <<y, x>> \in R}) = n - 1]
    BY Zenon DEF Listed
  <2>3. Arranged(kept, LAMBDA m, n : KeyBefore(KeyOf(changes[m].object), KeyOf(changes[n].object)))
        = [n \in 1..Cardinality(kept) |-> CHOOSE x \in kept : Cardinality({y \in kept : KeyBefore(key(y), key(x))}) = n - 1]
    BY Zenon DEF Arranged, key
  <2>4. ASSUME NEW n \in 1..Cardinality(kept)
        PROVE  (CHOOSE x \in kept : Cardinality({y \in kept : <<y, x>> \in R}) = n - 1)
               = (CHOOSE x \in kept : Cardinality({y \in kept : KeyBefore(key(y), key(x))}) = n - 1)
    <3> HIDE DEF R
    <3>1. \A x : x \in kept /\ Cardinality({y \in kept : <<y, x>> \in R}) = n - 1
                 <=> x \in kept /\ Cardinality({y \in kept : KeyBefore(key(y), key(x))}) = n - 1
      BY <2>1
    <3> QED BY <3>1
  <2> HIDE DEF R
  <2> QED BY <1>12, <2>2, <2>3, <2>4
<1>15. PICK list : list = [n \in DOMAIN order |-> changes[order[n]]]
  OBVIOUS
<1>16. EffectiveChanges(changes) = list
  <2>1. EffectiveChanges(changes) = [i \in DOMAIN Arranged(kept, LAMBDA m, n : KeyBefore(KeyOf(changes[m].object), KeyOf(changes[n].object))) |->
           changes[Arranged(kept, LAMBDA m, n : KeyBefore(KeyOf(changes[m].object), KeyOf(changes[n].object)))[i]]]
    BY Zenon DEF EffectiveChanges, kept, key
  <2> QED BY <1>14, <1>15, <2>1
<1>17. DOMAIN order = 1..Cardinality(kept) /\ Cardinality(kept) \in Nat /\ \A i \in 1..Cardinality(kept) : order[i] \in 1..k
  <2>1. Cardinality(kept) \in Nat
    BY <1>6, FS_CardinalityType
  <2>2. DOMAIN order = 1..Cardinality(kept) /\ order \in Seq(kept) /\ Len(order) = Cardinality(kept)
    BY <1>13 DEF Lists
  <2>3. \A i \in 1..Cardinality(kept) : order[i] \in kept
    BY <2>1, <2>2
  <2> QED BY <1>6, <2>1, <2>2, <2>3
<1>18. DOMAIN list = 1..Cardinality(kept) /\ list = [i \in 1..Cardinality(kept) |-> list[i]]
       /\ \A i \in 1..Cardinality(kept) : IsChange(list[i])
  BY <1>1, <1>2, <1>15, <1>17
<1>19. IsList(list) /\ Len(list) = Cardinality(kept)
  BY <1>17, <1>18, ListIs
<1> QED BY <1>16, <1>18, <1>19

\* A file of changes makes a state of a state.
LEMMA FileIs ==
  ASSUME NEW s, IsState(s), NEW file, AreChanges(file)
  PROVE  IsScanned(FileApplied(s, file))
<1>1. PICK changes : changes = EffectiveChanges(file)
  OBVIOUS
<1>2. IsList(changes) /\ \A i \in 1..Len(changes) : IsChange(changes[i])
  BY <1>1, EffectiveAre
<1>3. PICK base : base = [state |-> s, updates |-> << >>]
  OBVIOUS
<1>4. Held(base)
  <2>1. DOMAIN base = {"state", "updates"} /\ base.state = s /\ base.updates = << >>
    BY <1>3
  <2>2. DOMAIN << >> = {}
    OBVIOUS
  <2> QED BY <2>1, <2>2, FS_EmptySet DEF Held
<1>5. PICK F : F = Fold("change", base, changes)
  OBVIOUS
<1>6. PICK c : c = FoldLeft(ApplyChange, base, changes)
  OBVIOUS
<1>7. c = F[DOMAIN changes]
  BY <1>5, <1>6, ChangeFolds
<1>8. FileApplied(s, file) = RenumberRuleSets([c.state EXCEPT !.nodes = MergeNodeUpdates(c.state.nodes, c.updates)])
  BY <1>1, <1>3, <1>6, Zenon DEF FileApplied, ApplyChanges
<1>9. Len(changes) \in Nat /\ DOMAIN changes = 1..Len(changes)
  BY <1>2, IsListMeans
<1>10. /\ F[{}] = base
       /\ \A r \in SUBSET (1..Len(changes)) : r # {} => Max(r) \in r /\ F[r] = Step("change", F[r \ {Max(r)}], changes[Max(r)])
  <2>1. Takes(F, "change", base, changes)
    BY <1>2, <1>5, FoldIs
  <2> QED BY <2>1 DEF Takes
<1>11. \A d, x : Held(d) /\ IsChange(x) => Held(Step("change", d, x))
  <2>1. \A d, x : Step("change", d, x) = ApplyChange(d, x)
    BY Zenon DEF Step
  <2> QED BY <2>1, ChangeIs
<1> DEFINE P == {r \in SUBSET (1..Len(changes)) : Held(F[r])}
<1>12. {} \in P
  BY <1>4, <1>10
<1>13. \A r \in SUBSET (1..Len(changes)) : r # {} /\ r \ {Max(r)} \in P => r \in P
  <2>1. SUFFICES ASSUME NEW r \in SUBSET (1..Len(changes)), r # {}, Held(F[r \ {Max(r)}]) PROVE Held(F[r])
    OBVIOUS
  <2>2. PICK m : m = Max(r)
    OBVIOUS
  <2>3. m \in 1..Len(changes) /\ F[r] = Step("change", F[r \ {m}], changes[m])
    BY <1>10, <2>1, <2>2
  <2> QED BY <1>2, <1>11, <2>1, <2>2, <2>3
<1>14. SUBSET (1..Len(changes)) \subseteq P
  <2> HIDE DEF P
  <2> QED BY <1>9, <1>12, <1>13, FoldInduction
<1>15. Held(c)
  BY <1>7, <1>9, <1>14
<1>16. IsState(c.state) /\ c.state.nodes \in Seq(NodeType)
  BY <1>15 DEF Held, IsState
<1>17. MergeNodeUpdates(c.state.nodes, c.updates) \in Seq(NodeType) /\ IdsAscend(MergeNodeUpdates(c.state.nodes, c.updates))
  BY <1>15, <1>16, NodesMerge DEF Held
<1> QED BY <1>8, <1>16, <1>17, Settling

\* So do the files of an update, one after the other.
LEMMA FilesAre ==
  ASSUME NEW s, IsScanned(s), NEW files, files \in Seq(Range(files)), \A file \in Range(files) : AreChanges(file)
  PROVE  IsScanned(FoldLeft(FileApplied, s, files))
<1>1. IsList(files) /\ \A i \in 1..Len(files) : AreChanges(files[i])
  <2> HIDE DEF Range
  <2> QED BY SeqIsList
<1>2. PICK F : F = Fold("file", s, files)
  OBVIOUS
<1>3. FoldLeft(FileApplied, s, files) = F[DOMAIN files]
  BY <1>2, FileFolds
<1>4. Len(files) \in Nat /\ DOMAIN files = 1..Len(files)
  BY <1>1, IsListMeans
<1>5. /\ F[{}] = s
      /\ \A r \in SUBSET (1..Len(files)) : r # {} => Max(r) \in r /\ F[r] = Step("file", F[r \ {Max(r)}], files[Max(r)])
  <2>1. Takes(F, "file", s, files)
    BY <1>1, <1>2, FoldIs
  <2> QED BY <2>1 DEF Takes
<1>6. \A d, x : IsScanned(d) /\ AreChanges(x) => IsScanned(Step("file", d, x))
  <2>1. \A d, x : Step("file", d, x) = FileApplied(d, x)
    BY Zenon DEF Step
  <2> QED BY <2>1, FileIs DEF IsScanned
<1> DEFINE P == {r \in SUBSET (1..Len(files)) : IsScanned(F[r])}
<1>7. {} \in P
  BY <1>5
<1>8. \A r \in SUBSET (1..Len(files)) : r # {} /\ r \ {Max(r)} \in P => r \in P
  <2>1. SUFFICES ASSUME NEW r \in SUBSET (1..Len(files)), r # {}, IsScanned(F[r \ {Max(r)}]) PROVE IsScanned(F[r])
    OBVIOUS
  <2>2. PICK m : m = Max(r)
    OBVIOUS
  <2>3. m \in 1..Len(files) /\ F[r] = Step("file", F[r \ {m}], files[m])
    BY <1>5, <2>1, <2>2
  <2> QED BY <1>1, <1>6, <2>1, <2>2, <2>3
<1>9. SUBSET (1..Len(files)) \subseteq P
  <2> HIDE DEF P
  <2> QED BY <1>4, <1>7, <1>8, FoldInduction
<1> QED BY <1>3, <1>4, <1>9

-----------------------------------------------------------------------------
(* The components of a topology: the trees that its edges unite.           *)

\* Going up as often as there are nodes leads to the root.
LEMMA RootIs ==
  ASSUME NEW n \in Nat, NEW parent, NEW root, NEW d, Hangs(parent, n, root, d), NEW x \in 1..n
  PROVE  RootOf(parent, x) = root[x]
<1> DEFINE next == [p \in (1..n) \X (1..n) |-> parent[p[2]]]
           Is(f) == f = [k \in 0..n |-> IF k = 0 THEN x ELSE parent[f[k - 1]]]
           r == CHOOSE f : Is(f)
<1>1. parent \in [1..n -> 1..n] /\ DOMAIN parent = 1..n /\ Cardinality(1..n) = n
  <2>1. Cardinality(1..n) = n
    BY FS_Interval
  <2> QED BY <2>1 DEF Hangs
<1>2. \E f : Is(f)
  <2>1. next \in [(1..n) \X (1..n) -> 1..n]
    BY <1>1
  <2>2. PICK f : Follows(f, n, 1..n, x, next)
    <3> HIDE DEF next
    <3> QED BY <2>1, Stepwise
  <2>3. f \in [0..n -> 1..n] /\ f[0] = x /\ \A v \in 1..n : f[v] = next[<<v, f[v - 1]>>]
    BY <2>2, Zenon DEF Follows
  <2>4. \A v \in 0..n : f[v] = IF v = 0 THEN x ELSE parent[f[v - 1]]
    <3>1. \A v \in 0..n : v # 0 => v \in 1..n /\ f[v - 1] \in 1..n
      BY <2>3
    <3> QED BY <2>3, <3>1
  <2>5. f = [v \in 0..n |-> f[v]]
    BY <2>3
  <2> QED BY <2>4, <2>5, Zenon
<1>3. Is(r)
  BY <1>2, Zenon
<1>4. RootOf(parent, x) = r[n]
  BY <1>1, Zenon DEF RootOf
<1> HIDE DEF r
<1>5. r[0] = x /\ \A k \in 1..n : r[k] = parent[r[k - 1]]
  <2>1. \A k \in 0..n : r[k] = IF k = 0 THEN x ELSE parent[r[k - 1]]
    BY <1>3, Zenon
  <2> HIDE DEF Is
  <2>2. 0 \in 0..n /\ \A k \in 1..n : k \in 0..n /\ k # 0
    OBVIOUS
  <2> QED BY <2>1, <2>2
<1> HIDE DEF Is
<1>6. r[n] = root[x]
  BY <1>5, ClimbsToRoot
<1> QED BY <1>4, <1>6

\* An edge unites the trees of its ends.
LEMMA UniteStep ==
  ASSUME NEW n \in Nat, NEW edges, NEW m \in Nat,
         EndsIn(edges, m + 1, n),
         NEW forest, Unites(forest.parent, n, edges, m)
  PROVE  Unites(United(forest, edges[m + 1].from, edges[m + 1].to).parent, n, edges, m + 1)
<1>1. PICK root, d : Hangs(forest.parent, n, root, d) /\ Joins(edges, m, n, root)
  BY Zenon DEF Unites
<1>2. PICK l \in 1..n : l = edges[m + 1].from
  <2>1. m + 1 \in 1..(m + 1)
    OBVIOUS
  <2> QED BY <2>1 DEF EndsIn
<1>3. PICK r \in 1..n : r = edges[m + 1].to
  <2>1. m + 1 \in 1..(m + 1)
    OBVIOUS
  <2> QED BY <2>1 DEF EndsIn
<1>4. RootOf(forest.parent, l) = root[l] /\ RootOf(forest.parent, r) = root[r]
  BY <1>1, RootIs
<1>5. root \in [1..n -> 1..n] /\ \A x \in 1..n : root[root[x]] = root[x]
  BY <1>1 DEF Hangs
<1>6. EndsIn(edges, m, n)
  BY DEF EndsIn
<1>7. PICK after : after = United(forest, l, r)
  OBVIOUS
<1>8. CASE root[l] = root[r]
  <2>1. after = forest
    BY <1>4, <1>7, <1>8 DEF United
  <2>2. Joins(edges, m + 1, n, root)
    <3>1. 1..(m + 1) = 1..m \cup {m + 1}
      OBVIOUS
    <3>2. \A part : Crossed(edges, m, part) => Crossed(edges, m + 1, part)
      BY <3>1 DEF Crossed
    <3>3. \A i \in 1..(m + 1) : root[edges[i].from] = root[edges[i].to]
      BY <1>1, <1>2, <1>3, <1>8, <3>1 DEF Joins
    <3> QED BY <1>1, <3>2, <3>3 DEF Joins
  <2>3. Unites(after.parent, n, edges, m + 1)
    BY <1>1, <2>1, <2>2, Zenon DEF Unites
  <2> QED BY <1>2, <1>3, <1>7, <2>3
<1>9. CASE root[l] # root[r]
  <2>1. PICK u \in {l, r}, v \in {l, r} : u # v /\ after.parent = [forest.parent EXCEPT ![root[u]] = root[v]]
    <3>1. PICK low \in {root[l], root[r]}, high \in {root[l], root[r]} :
            low # high /\ after.parent = [forest.parent EXCEPT ![low] = high]
      BY <1>4, <1>7, <1>9 DEF United
    <3>2. CASE low = root[l] /\ high = root[r]
      BY <1>9, <3>1, <3>2
    <3>3. CASE low = root[r] /\ high = root[l]
      BY <1>9, <3>1, <3>3
    <3> QED BY <3>1, <3>2, <3>3
  <2>2. root[u] # root[v] /\ {u, v} = {l, r} /\ u \in 1..n /\ v \in 1..n
    BY <1>9, <2>1
  <2>3. PICK low \in 1..n : low = root[u]
    BY <1>5, <2>2
  <2>4. PICK high \in 1..n : high = root[v]
    BY <1>5, <2>2
  <2>5. PICK joined : joined = [x \in 1..n |-> IF root[x] = low THEN high ELSE root[x]]
    OBVIOUS
  <2>9. Renamed(joined, root, n, low, high)
    BY <1>5, <2>5 DEF Renamed
  <2>6. \E e : Hangs([forest.parent EXCEPT ![low] = high], n, joined, e)
    <3>1. root[low] = low /\ root[high] = high /\ low # high
      BY <1>5, <2>2, <2>3, <2>4
    <3>2. PICK p : p = [forest.parent EXCEPT ![low] = high]
      OBVIOUS
    <3>3. Lowered(p, forest.parent, n, low, high)
      BY <1>1, <3>2 DEF Hangs, Lowered
    <3>4. \E e : Hangs(p, n, joined, e)
      BY <1>1, <2>9, <3>1, <3>3, TreesJoin
    <3> QED BY <3>2, <3>4
  <2>7. Joins(edges, m + 1, n, joined)
    <3>1. {u, v} = {edges[m + 1].from, edges[m + 1].to}
      BY <1>2, <1>3, <2>2
    <3>2. Renamed(joined, root, n, root[u], root[v])
      BY <2>3, <2>4, <2>9
    <3> QED BY <1>1, <1>5, <1>6, <2>2, <3>1, <3>2, ClassesJoin
  <2>8. Unites(after.parent, n, edges, m + 1)
    BY <2>1, <2>3, <2>4, <2>6, <2>7, Zenon DEF Unites
  <2> QED BY <1>2, <1>3, <1>7, <2>8
<1> QED BY <1>8, <1>9

\* The forest that ComponentsOf grows from the edges.
LEMMA ForestIs ==
  ASSUME NEW n \in Nat, NEW edges, IsList(edges), EndsIn(edges, Len(edges), n),
         NEW base, base.parent = [x \in 1..n |-> x]
  PROVE  Unites(FoldLeft(LAMBDA f, e : United(f, e.from, e.to), base, edges).parent, n, edges, Len(edges))
<1>1. Len(edges) \in Nat /\ DOMAIN edges = 1..Len(edges)
  BY IsListMeans
<1>2. PICK f : f = Fold("unite", base, edges)
  OBVIOUS
<1>3. f[1..0] = base /\ \A m \in 1..Len(edges) : f[1..m] = Step("unite", f[1..(m - 1)], edges[m])
  <2>1. Takes(f, "unite", base, edges)
    BY <1>2, FoldIs
  <2> QED BY <2>1, FoldedSteps
<1>4. PICK grown : grown = FoldLeft(LAMBDA g, e : United(g, e.from, e.to), base, edges)
  OBVIOUS
<1>8. grown = f[1..Len(edges)]
  BY <1>1, <1>2, <1>4, UniteFolds, Zenon
<1> DEFINE T == {m \in Nat : m <= Len(edges) => Unites(f[1..m].parent, n, edges, m)}
<1>5. 0 \in T
  <2>1. PICK up : up = [x \in 1..n |-> x]
    OBVIOUS
  <2>2. Unites(up, n, edges, 0)
    BY <2>1, ForestBegins
  <2> QED BY <1>3, <2>1, <2>2
<1>6. ASSUME NEW m \in Nat, m \in T PROVE m + 1 \in T
  <2>1. SUFFICES ASSUME m + 1 <= Len(edges) PROVE Unites(f[1..(m + 1)].parent, n, edges, m + 1)
    OBVIOUS
  <2>2. PICK forest : forest = f[1..m]
    OBVIOUS
  <2>3. Unites(forest.parent, n, edges, m)
    BY <1>1, <1>6, <2>1, <2>2
  <2>4. f[1..(m + 1)] = United(forest, edges[m + 1].from, edges[m + 1].to)
    <3>1. m + 1 \in 1..Len(edges) /\ (m + 1) - 1 = m
      BY <1>1, <2>1
    <3>2. f[1..(m + 1)] = Step("unite", forest, edges[m + 1])
      BY <1>3, <2>2, <3>1
    <3>3. \A c, x : Step("unite", c, x) = United(c, x.from, x.to)
      BY Zenon DEF Step
    <3> QED BY <3>2, <3>3
  <2>5. EndsIn(edges, m + 1, n)
    BY <1>1, <2>1 DEF EndsIn
  <2> QED BY <2>3, <2>4, <2>5, UniteStep
<1>7. Len(edges) \in T
  <2> HIDE DEF T
  <2> QED BY <1>1, <1>5, <1>6, StepByStep
<1>9. Unites(grown.parent, n, edges, Len(edges))
  BY <1>1, <1>7, <1>8
<1> QED BY <1>4, <1>9, Zenon

-----------------------------------------------------------------------------
(* Labels, given out in the order of the nodes.                            *)

\* A value more.
LEMMA LabelMore ==
  ASSUME NEW l, NEW values, NEW m \in Nat, Labels(l, values, m)
  PROVE  Labels(Interned(l, values[m + 1]), values, m + 1)
BY LabelsGrow DEF Interned

\* The labels of all values.
LEMMA LabelsAre ==
  ASSUME NEW values, IsList(values)
  PROVE  Labels(FoldLeft(Interned, << >>, values), values, Len(values))
<1>1. Len(values) \in Nat /\ DOMAIN values = 1..Len(values)
  BY IsListMeans
<1>2. PICK f : f = Fold("intern", << >>, values)
  OBVIOUS
<1>3. f[1..0] = << >> /\ \A m \in 1..Len(values) : f[1..m] = Step("intern", f[1..(m - 1)], values[m])
  BY <1>2, FoldIs, FoldedSteps
<1>4. FoldLeft(Interned, << >>, values) = f[1..Len(values)]
  BY <1>1, <1>2, InternFolds, Zenon
<1> DEFINE T == {m \in Nat : m <= Len(values) => Labels(f[1..m], values, m)}
<1>5. 0 \in T
  <2>1. IsList(<< >>) /\ Len(<< >>) = 0
    BY DEF IsList
  <2>2. Labels(<< >>, values, 0)
    BY <2>1 DEF Labels
  <2> QED BY <1>3, <2>2
<1>6. ASSUME NEW m \in Nat, m \in T PROVE m + 1 \in T
  <2>1. SUFFICES ASSUME m + 1 <= Len(values) PROVE Labels(f[1..(m + 1)], values, m + 1)
    OBVIOUS
  <2>2. PICK l : l = f[1..m]
    OBVIOUS
  <2>3. Labels(l, values, m)
    BY <1>1, <1>6, <2>1, <2>2
  <2>4. f[1..(m + 1)] = Interned(l, values[m + 1])
    <3>1. m + 1 \in 1..Len(values) /\ (m + 1) - 1 = m
      BY <1>1, <2>1
    <3>2. f[1..(m + 1)] = Step("intern", l, values[m + 1])
      BY <1>3, <2>2, <3>1
    <3>3. \A c, x : Step("intern", c, x) = Interned(c, x)
      BY Zenon DEF Step
    <3> QED BY <3>2, <3>3
  <2> QED BY <2>3, <2>4, LabelMore
<1>7. Len(values) \in T
  <2> HIDE DEF T
  <2> QED BY <1>1, <1>5, <1>6, StepByStep
<1> QED BY <1>1, <1>4, <1>7

\* What ComponentsOf gives.
LEMMA ComponentsAre ==
  ASSUME NEW n \in Nat, NEW edges, IsList(edges), EndsIn(edges, Len(edges), n)
  PROVE  AreLabels(ComponentsOf(n, edges), n, edges)
<1>1. PICK base : base = [parent |-> [x \in 1..n |-> x], rank |-> [x \in 1..n |-> 0]]
  OBVIOUS
<1>2. PICK forest : forest = FoldLeft(LAMBDA f, e : United(f, e.from, e.to), base, edges)
  OBVIOUS
<1>3. Unites(forest.parent, n, edges, Len(edges))
  <2>1. base.parent = [x \in 1..n |-> x]
    BY <1>1
  <2>2. Unites(FoldLeft(LAMBDA f, e : United(f, e.from, e.to), base, edges).parent, n, edges, Len(edges))
    BY <2>1, ForestIs, Zenon
  <2> QED BY <1>2, <2>2, Zenon
<1>4. PICK root, d : Hangs(forest.parent, n, root, d) /\ Joins(edges, Len(edges), n, root)
  BY <1>3, Zenon DEF Unites
<1>5. root \in [1..n -> 1..n]
  BY <1>4 DEF Hangs
<1>6. root = [x \in 1..n |-> RootOf(forest.parent, x)]
  <2>1. \A x \in 1..n : RootOf(forest.parent, x) = root[x]
    BY <1>4, RootIs
  <2>2. root = [x \in 1..n |-> root[x]]
    BY <1>5
  <2> QED BY <2>1, <2>2
<1>7. PICK l : l = FoldLeft(Interned, << >>, root)
  OBVIOUS
<1>8. Labels(l, root, n)
  <2>1. root \in Seq(1..n) /\ Len(root) = n
    BY <1>5
  <2> QED BY <1>7, <2>1, SeqIsList, LabelsAre
<1>9. PICK label : label = [x \in 1..n |-> NumberOf(l, root[x])]
  OBVIOUS
<1>10. ComponentsOf(n, edges) = label
  BY <1>1, <1>2, <1>6, <1>7, <1>9, Zenon DEF ComponentsOf
<1>11. ASSUME NEW x \in 1..n PROVE label[x] \in 1..Len(l) /\ l[label[x]] = root[x]
  <2>1. DOMAIN l = 1..Len(l) /\ \A e : e \in Range(l) <=> \E i \in 1..Len(l) : l[i] = e
    BY <1>8, IsListMeans DEF Labels
  <2>2. PICK j \in 1..Len(l) : l[j] = root[x]
    BY <1>8 DEF Labels
  <2>3. label[x] = NumberOf(l, root[x])
    BY <1>9
  <2>4. root[x] \in Range(l)
    BY <2>1, <2>2
  <2>5. NumberOf(l, root[x]) = CHOOSE i \in DOMAIN l : l[i] = root[x]
    BY <2>4 DEF NumberOf
  <2> QED BY <2>1, <2>2, <2>3, <2>5
<1>12. label = [x \in 1..n |-> label[x]]
  BY <1>9
<1>13. LabelsOf(label, n, l, root)
  BY <1>5, <1>8, <1>11, <1>12 DEF LabelsOf
<1>14. AreLabels(label, n, edges)
  BY <1>4, <1>13, Zenon DEF AreLabels
<1> QED BY <1>10, <1>14, Zenon

\* The components of a topology are those of its edges.
LabelsComponents(t) == AreLabels(t.components, Len(t.nodes), t.edges)

\* No two nodes of a topology have one number.
NodesDiffer(t) == \A i, j \in 1..Len(t.nodes) : t.nodes[i] = t.nodes[j] => i = j

\* What a state is built into.
LEMMA BuiltIs ==
  ASSUME NEW s, IsScanned(s)
  PROVE  LET t == BuildTopology(ScanOutput(s)) IN IsTopology(t) /\ NodesDiffer(t) /\ LabelsComponents(t)
<1>1. PICK t : t = BuildTopology(ScanOutput(s))
  OBVIOUS
<1>2. PICK nodes : nodes = ScanOutput(s).nodes
  OBVIOUS
<1>3. IsTopology(t) /\ t.nodes = [n \in DOMAIN nodes |-> nodes[n].id] /\ nodes \in Seq(NodeType)
  BY <1>1, <1>2, TopologyIs DEF IsScanned
<1> DEFINE found == FlattenSeq(ById(s.restrictions))
           needed == UNION {Range(ById(s.ways)[n].nodes) : n \in DOMAIN ById(s.ways)} \cup ({found[n].node : n \in DOMAIN found} \ {None})
           positions == {n \in DOMAIN s.nodes : s.nodes[n].id \in needed}
<1>4. nodes = Picked(s.nodes, positions)
  BY <1>2 DEF ScanOutput
<1> HIDE DEF needed
<1>5. Len(s.nodes) \in Nat /\ DOMAIN s.nodes = 1..Len(s.nodes) /\ \A n \in 1..Len(s.nodes) : s.nodes[n].id \in Int
  <2>1. s.nodes \in Seq(NodeType)
    BY DEF IsScanned, IsState
  <2>2. Len(s.nodes) \in Nat /\ DOMAIN s.nodes = 1..Len(s.nodes) /\ \A n \in 1..Len(s.nodes) : s.nodes[n] \in NodeType
    BY <2>1
  <2> QED BY <2>2 DEF NodeType
<1>6. positions \in SUBSET (1..Len(s.nodes))
  BY <1>5
<1> HIDE DEF positions
<1>7. positions \in SUBSET Int /\ IsFiniteSet(positions)
  <2>1. IsFiniteSet(1..Len(s.nodes)) /\ 1..Len(s.nodes) \in SUBSET Int
    BY <1>5, FS_Interval
  <2> QED BY <1>6, <2>1, FS_Subset
<1>8. PICK order : order = Sorted(positions)
  OBVIOUS
<1>9. /\ DOMAIN order = 1..Cardinality(positions) /\ \A i \in 1..Cardinality(positions) : order[i] \in positions
      /\ \A i, j \in 1..Cardinality(positions) : order[i] = order[j] => i = j
  <2>1. Lists(order, positions)
    BY <1>7, <1>8, Sorting
  <2>2. Cardinality(positions) \in Nat
    BY <1>7, FS_CardinalityType
  <2>3. order \in Seq(positions) /\ Len(order) = Cardinality(positions)
    BY <2>1 DEF Lists
  <2>4. \A i \in 1..Cardinality(positions) : order[i] \in positions
    BY <2>2, <2>3
  <2>5. DOMAIN order = 1..Cardinality(positions) /\ \A i, j \in 1..Cardinality(positions) : order[i] = order[j] => i = j
    BY <2>1 DEF Lists
  <2> QED BY <2>4, <2>5
<1>10. nodes = [n \in DOMAIN order |-> s.nodes[order[n]]]
  BY <1>4, <1>8, Zenon DEF Picked
<1>11. \A m, n \in positions : s.nodes[m].id = s.nodes[n].id => m = n
  BY <1>5, <1>6 DEF IsScanned, IdsAscend
<1>12. DOMAIN nodes = 1..Cardinality(positions) /\ \A i \in 1..Cardinality(positions) : nodes[i].id = s.nodes[order[i]].id
  BY <1>9, <1>10
<1>13. DOMAIN t.nodes = 1..Cardinality(positions) /\ \A i \in 1..Cardinality(positions) : t.nodes[i] = nodes[i].id
  BY <1>3, <1>12
<1>14. Len(t.nodes) \in Nat /\ DOMAIN t.nodes = 1..Len(t.nodes)
  BY <1>3 DEF IsTopology
<1>15. \A i, j \in 1..Cardinality(positions) : t.nodes[i] = t.nodes[j] => i = j
  BY <1>9, <1>11, <1>12, <1>13
<1>16. NodesDiffer(t)
  BY <1>13, <1>14, <1>15 DEF NodesDiffer
<1>17. LabelsComponents(t)
  <2>1. t.components = ComponentsOf(Len(t.nodes), t.edges)
    BY <1>1, TopologyIs DEF IsScanned
  <2>2. IsList(t.edges) /\ EndsIn(t.edges, Len(t.edges), Len(t.nodes))
    BY <1>3 DEF IsTopology, EndsIn
  <2>3. AreLabels(ComponentsOf(Len(t.nodes), t.edges), Len(t.nodes), t.edges)
    BY <1>14, <2>2, ComponentsAre
  <2> QED BY <2>1, <2>3 DEF LabelsComponents
<1> QED BY <1>1, <1>3, <1>16, <1>17

\* What is restored is in the order of the numbers as well.
LEMMA RestoredIsSettled ==
  ASSUME NEW snap, IsSnapshot(snap), NEW places \in Seq(Int \X Int), NEW s \in FromSnapshot(snap, places)
  PROVE  IsScanned(s)
<1>1. IsState(s) /\ Ascending(s.nodes)
  BY RestoredIs
<1> QED BY <1>1, AscendingMeans DEF IsScanned, IsState

-----------------------------------------------------------------------------
(* The ranks carried over.                                                 *)

\* A rank of an edge is a number, and no two edges have the same.
IsRanking(ranks, n) ==
  /\ \E b \in Nat : ranks \in [1..n -> 0..b]
  /\ \A e, f \in 1..n : ranks[e] = ranks[f] /\ ranks[e] # None => e = f

\* Each edge that was carried over has the rank of an edge of its own.
LEMMA RanksAre ==
  ASSUME NEW previous, NEW topology, IsTopology(topology), NodesDiffer(topology), IsTopology(previous.topology),
         Lists(previous.order, DOMAIN previous.topology.edges)
  PROVE  IsRanking(PreviousRanks(previous, topology), Len(topology.edges))
<1> DEFINE old == previous.topology
           alike(t, e) == {f \in 1 .. e : /\ t.edges[f].way = t.edges[e].way
                                         /\ t.edges[f].from = t.edges[e].from /\ t.edges[f].to = t.edges[e].to}
           key(t, e) == <<t.edges[e].way, t.nodes[t.edges[e].from], t.nodes[t.edges[e].to], Cardinality(alike(t, e))>>
           twin(e)   == {f \in DOMAIN old.edges : key(old, f) = key(topology, e)}
           claimed   == UNION {twin(e) : e \in DOMAIN topology.edges}
           ends(t, e) == <<key(t, e)[2], key(t, e)[3]>>
           open(e)   == {f \in (DOMAIN old.edges) \ claimed : ends(old, f) = ends(topology, e)}
           before(e) == {f \in 1 .. e : twin(f) = {} /\ ends(topology, f) = ends(topology, e)}
           turn(e)   == Cardinality(before(e))
           rank(f)   == CHOOSE n \in DOMAIN previous.order : previous.order[n] = f
           ranks     == PreviousRanks(previous, topology)
<1>1. ranks = [e \in DOMAIN topology.edges |->
                 CASE twin(e) # {} -> rank(One(twin(e)))
                   [] twin(e) = {} /\ turn(e) <= Len(Sorted(open(e))) -> rank(Sorted(open(e))[turn(e)])
                   [] OTHER -> None]
  BY DEF PreviousRanks
<1>2. PICK n \in Nat, m \in Nat : n = Len(topology.edges) /\ m = Len(old.edges)
  BY IsListMeans DEF IsTopology
<1>3. DOMAIN topology.edges = 1..n /\ DOMAIN old.edges = 1..m
  BY <1>2, IsListMeans DEF IsTopology
<1> HIDE DEF ranks
<1>4. ASSUME NEW e \in 1..n, NEW f \in 1..n, key(topology, e) = key(topology, f) PROVE e = f
  <2>1. \A x \in 1..n : topology.edges[x].from \in 1..Len(topology.nodes) /\ topology.edges[x].to \in 1..Len(topology.nodes)
    BY <1>2 DEF IsTopology
  <2>2. /\ topology.edges[e].way = topology.edges[f].way
        /\ topology.nodes[topology.edges[e].from] = topology.nodes[topology.edges[f].from]
        /\ topology.nodes[topology.edges[e].to] = topology.nodes[topology.edges[f].to]
        /\ Cardinality(alike(topology, e)) = Cardinality(alike(topology, f))
    <3> HIDE DEF alike
    <3> QED BY <1>4
  <2>3. topology.edges[e].from = topology.edges[f].from /\ topology.edges[e].to = topology.edges[f].to
    BY <2>1, <2>2 DEF NodesDiffer
  <2> DEFINE P == {x \in 1..n : /\ topology.edges[x].way = topology.edges[e].way
                              /\ topology.edges[x].from = topology.edges[e].from /\ topology.edges[x].to = topology.edges[e].to}
  <2>4. P \in SUBSET (1..n) /\ e \in P /\ f \in P
    BY <2>2, <2>3
  <2>5. \A x \in P : Cardinality(alike(topology, x)) = CountTo(P, x)
    <3>1. \A x \in P : alike(topology, x) = {y \in P : y <= x}
      OBVIOUS
    <3> HIDE DEF P, alike
    <3> QED BY <3>1 DEF CountTo
  <2> HIDE DEF P, key, alike
  <2>6. CountTo(P, e) = CountTo(P, f)
    BY <2>2, <2>4, <2>5
  <2>7. ~(e < f)
    BY <2>4, <2>6, CountGrows
  <2>8. ~(f < e)
    BY <2>4, <2>6, CountGrows
  <2> QED BY <2>7, <2>8
<1> HIDE DEF key
<1>5. ASSUME NEW e \in 1..n, twin(e) # {}
      PROVE  One(twin(e)) \in 1..m /\ One(twin(e)) \in claimed /\ key(old, One(twin(e))) = key(topology, e)
  <2>1. One(twin(e)) \in twin(e)
    BY <1>5, Zenon DEF One
  <2> QED BY <1>3, <2>1
<1> HIDE DEF ends
<1>6. ASSUME NEW e \in 1..n
      PROVE  /\ open(e) \in SUBSET Int /\ IsFiniteSet(open(e)) /\ Lists(Sorted(open(e)), open(e))
             /\ open(e) \in SUBSET (1..m) /\ \A f \in open(e) : f \notin claimed /\ ends(old, f) = ends(topology, e)
  <2>1. open(e) \in SUBSET (1..m) /\ \A f \in open(e) : f \notin claimed /\ ends(old, f) = ends(topology, e)
    BY <1>3
  <2> HIDE DEF open
  <2>2. IsFiniteSet(1..m)
    BY FS_Interval
  <2>3. open(e) \in SUBSET Int /\ IsFiniteSet(open(e))
    BY <2>1, <2>2, FS_Subset
  <2> QED BY <2>1, <2>3, Sorting
<1> HIDE DEF claimed, open
<1>7. ASSUME NEW e \in 1..n, twin(e) = {} PROVE turn(e) \in Nat /\ turn(e) >= 1
  <2>1. before(e) \in SUBSET (1..e) /\ e \in before(e) /\ e \in Nat
    BY <1>7
  <2> HIDE DEF before
  <2>2. IsFiniteSet(1..e)
    BY <2>1, FS_Interval
  <2>3. IsFiniteSet(before(e))
    BY <2>1, <2>2, FS_Subset
  <2>4. turn(e) \in Nat /\ turn(e) # 0
    BY <2>1, <2>3, FS_CardinalityType, FS_EmptySet
  <2> HIDE DEF turn
  <2> QED BY <2>4
<1>8. ASSUME NEW e \in 1..n, NEW f \in 1..n, twin(e) = {}, twin(f) = {}, ends(topology, e) = ends(topology, f), turn(e) = turn(f)
      PROVE  e = f
  <2> DEFINE P == {x \in 1..n : twin(x) = {} /\ ends(topology, x) = ends(topology, e)}
  <2>1. P \in SUBSET (1..n) /\ e \in P /\ f \in P
    BY <1>8
  <2> HIDE DEF twin
  <2>2. \A x \in P : turn(x) = CountTo(P, x)
    <3>1. \A x \in P : before(x) = {y \in P : y <= x}
      OBVIOUS
    <3> HIDE DEF P, before
    <3> QED BY <3>1 DEF CountTo
  <2> HIDE DEF P, turn
  <2>3. CountTo(P, e) = CountTo(P, f)
    BY <1>8, <2>1, <2>2
  <2>4. ~(e < f)
    BY <2>1, <2>3, CountGrows
  <2>5. ~(f < e)
    BY <2>1, <2>3, CountGrows
  <2> QED BY <2>4, <2>5
<1> HIDE DEF turn, before
<1> DEFINE matched(e) == twin(e) # {} \/ turn(e) <= Len(Sorted(open(e)))
           from(e) == IF twin(e) # {} THEN One(twin(e)) ELSE Sorted(open(e))[turn(e)]
<1> HIDE DEF twin, rank
<1>9. \A e \in 1..n : ranks[e] = IF matched(e) THEN rank(from(e)) ELSE None
  BY <1>1, <1>3
<1>10. ASSUME NEW e \in 1..n, matched(e), twin(e) = {}
       PROVE  from(e) \in open(e) /\ from(e) = Sorted(open(e))[turn(e)] /\ turn(e) \in 1..Cardinality(open(e))
  <2>1. PICK list : list = Sorted(open(e))
    OBVIOUS
  <2>2. list \in Seq(open(e)) /\ Len(list) = Cardinality(open(e))
    BY <1>6, <2>1 DEF Lists
  <2>3. turn(e) \in 1..Len(list)
    BY <1>7, <1>10, <2>1, <2>2
  <2> QED BY <1>10, <2>1, <2>2, <2>3
<1>11. ASSUME NEW e \in 1..n, matched(e) PROVE from(e) \in 1..m
  BY <1>5, <1>6, <1>10, <1>11
<1>12. ASSUME NEW e \in 1..n, NEW f \in 1..n, matched(e), matched(f), from(e) = from(f) PROVE e = f
  <2>1. CASE twin(e) # {} /\ twin(f) # {}
    <3>1. key(topology, e) = key(topology, f)
      BY <1>5, <1>12, <2>1
    <3> QED BY <1>4, <3>1
  <2>2. CASE twin(e) # {} /\ twin(f) = {}
    BY <1>5, <1>6, <1>10, <1>12, <2>2
  <2>3. CASE twin(e) = {} /\ twin(f) # {}
    BY <1>5, <1>6, <1>10, <1>12, <2>3
  <2>4. CASE twin(e) = {} /\ twin(f) = {}
    <3>1. from(e) \in open(e) /\ from(f) \in open(f)
      BY <1>10, <1>12, <2>4
    <3>2. ends(topology, e) = ends(topology, f)
      <4> HIDE DEF from
      <4> QED BY <1>6, <1>12, <3>1
    <3>3. open(e) = open(f)
      BY <3>2 DEF open
    <3>4. \A i, j \in 1..Cardinality(open(e)) : Sorted(open(e))[i] = Sorted(open(e))[j] => i = j
      BY <1>6 DEF Lists
    <3>5. turn(e) = turn(f)
      <4>1. /\ from(e) = Sorted(open(e))[turn(e)] /\ turn(e) \in 1..Cardinality(open(e))
            /\ from(f) = Sorted(open(f))[turn(f)] /\ turn(f) \in 1..Cardinality(open(f))
        BY <1>10, <1>12, <2>4
      <4> HIDE DEF from
      <4> QED BY <1>12, <3>3, <3>4, <4>1
    <3> QED BY <1>8, <2>4, <3>2, <3>5
  <2> QED BY <2>1, <2>2, <2>3, <2>4
<1> HIDE DEF from, matched
<1>13. PICK b \in Nat : \A f \in 1..m : rank(f) \in 1..b /\ previous.order[rank(f)] = f
  <2>1. PICK order : order = previous.order
    OBVIOUS
  <2>2. Lists(order, 1..m)
    BY <1>3, <2>1
  <2>3. PICK b : b = Cardinality(1..m)
    OBVIOUS
  <2>4. Range(order) = 1..m /\ DOMAIN order = 1..b /\ IsFiniteSet(1..m)
    BY <2>2, <2>3 DEF Lists
  <2>5. b \in Nat
    BY <2>3, <2>4, FS_CardinalityType
  <2>6. \A f \in 1..m : \E i \in DOMAIN order : order[i] = f
    BY <2>4 DEF Range
  <2>7. \A f \in 1..m : rank(f) \in DOMAIN order /\ order[rank(f)] = f
    BY <2>1, <2>6 DEF rank
  <2> QED BY <2>1, <2>4, <2>5, <2>7
<1>14. ranks \in [1..n -> 0..b]
  <2>1. \A e \in 1..n : ranks[e] \in 0..b
    BY <1>9, <1>11, <1>13 DEF None
  <2>2. DOMAIN ranks = 1..n /\ ranks = [e \in 1..n |-> ranks[e]]
    BY <1>1, <1>3
  <2> QED BY <2>1, <2>2
<1>15. ASSUME NEW e \in 1..n, NEW f \in 1..n, ranks[e] = ranks[f], ranks[e] # None PROVE e = f
  <2>1. matched(e) /\ matched(f) /\ rank(from(e)) = rank(from(f))
    BY <1>9, <1>15
  <2>2. from(e) = from(f)
    BY <1>11, <1>13, <2>1
  <2> QED BY <1>12, <2>1, <2>2
<1>16. IsRanking(ranks, n)
  BY <1>14, <1>15 DEF IsRanking
<1> QED BY <1>2, <1>16 DEF ranks

\* The only element of a set.
LEMMA OneOf ==
  ASSUME NEW S, NEW x, S = {x}
  PROVE  One(S) = x /\ Cardinality(S) = 1
<1>1. One({x}) \in {x}
  BY Zenon DEF One
<1>2. Cardinality({x}) = 1
  BY FS_Singleton
<1> QED BY <1>1, <1>2

\* The rank of what an edge was.
FormerRank(previous, topology, e) ==
  LET former == Former(previous.topology, topology, e) IN IF former = {} THEN None ELSE Place(previous.order, One(former))

\* There an edge has the rank of what it was.
LEMMA RanksAreFormer ==
  ASSUME NEW previous, NEW topology, IsTopology(topology), IsTopology(previous.topology),
         TellsApart(previous.topology, topology), NEW e \in DOMAIN topology.edges
  PROVE  PreviousRanks(previous, topology)[e] = FormerRank(previous, topology, e)
<1> DEFINE old == previous.topology
           alike(t, x) == {f \in 1 .. x : /\ t.edges[f].way = t.edges[x].way
                                         /\ t.edges[f].from = t.edges[x].from /\ t.edges[f].to = t.edges[x].to}
           key(t, x) == <<t.edges[x].way, t.nodes[t.edges[x].from], t.nodes[t.edges[x].to], Cardinality(alike(t, x))>>
           twin(x)   == {f \in DOMAIN old.edges : key(old, f) = key(topology, x)}
           claimed   == UNION {twin(x) : x \in DOMAIN topology.edges}
           ends(t, x) == <<key(t, x)[2], key(t, x)[3]>>
           open(x)   == {f \in (DOMAIN old.edges) \ claimed : ends(old, f) = ends(topology, x)}
           before(x) == {f \in 1 .. x : twin(f) = {} /\ ends(topology, f) = ends(topology, x)}
           turn(x)   == Cardinality(before(x))
           rank(f)   == Place(previous.order, f)
           was(x)    == Former(old, topology, x)
<1>1. PreviousRanks(previous, topology) = [x \in DOMAIN topology.edges |->
                 CASE twin(x) # {} -> rank(One(twin(x)))
                   [] twin(x) = {} /\ turn(x) <= Len(Sorted(open(x))) -> rank(Sorted(open(x))[turn(x)])
                   [] OTHER -> None]
  BY DEF PreviousRanks, Place
<1>2. PICK n \in Nat, m \in Nat : n = Len(topology.edges) /\ m = Len(old.edges)
  BY IsListMeans DEF IsTopology
<1>3. DOMAIN topology.edges = 1..n /\ DOMAIN old.edges = 1..m
  BY <1>2, IsListMeans DEF IsTopology
<1>4. \A x, y \in 1..n : \A f \in was(x), g \in was(y) : f = g <=> x = y
  BY <1>3 DEF TellsApart
<1>5. \A t, x, y : alike(t, x) = alike(t, x) /\ (key(t, x)[1] = t.edges[x].way /\ ends(t, x) = EndsOf(t, x))
  BY DEF EndsOf
<1>6. ASSUME NEW x \in 1..n PROVE twin(x) = Same(old, topology, x)
  <2>1. \A f \in twin(x) : f \in Same(old, topology, x)
    <3>1. ASSUME NEW f \in twin(x) PROVE f \in Same(old, topology, x)
      <4>1. f \in DOMAIN old.edges /\ key(old, f) = key(topology, x)
        OBVIOUS
      <4> HIDE DEF alike, twin
      <4>2. old.edges[f].way = topology.edges[x].way /\ EndsOf(old, f) = EndsOf(topology, x)
        BY <4>1 DEF EndsOf
      <4> QED BY <4>1, <4>2 DEF Same
    <3> QED BY <3>1
  <2>2. ASSUME NEW f \in Same(old, topology, x) PROVE f \in twin(x)
    <3>1. was(x) = Same(old, topology, x)
      BY DEF Former
    <3>2. f \in 1..m /\ EndsOf(old, f) = EndsOf(topology, x) /\ old.edges[f].way = topology.edges[x].way
      BY <1>3 DEF Same
    <3>3. ASSUME NEW g \in alike(old, f) PROVE g = f
      <4>1. g \in 1..m /\ EndsOf(old, g) = EndsOf(old, f) /\ old.edges[g].way = old.edges[f].way
        BY <3>2 DEF EndsOf
      <4>2. g \in Same(old, topology, x)
        BY <1>3, <3>2, <4>1 DEF Same
      <4> QED BY <1>4, <3>1, <4>2
    <3>4. ASSUME NEW y \in alike(topology, x) PROVE y = x
      <4>1. y \in 1..n /\ EndsOf(topology, y) = EndsOf(topology, x) /\ topology.edges[y].way = topology.edges[x].way
        BY DEF EndsOf
      <4>2. f \in Same(old, topology, y)
        BY <1>3, <3>2, <4>1 DEF Same
      <4>3. f \in was(y)
        BY <4>2 DEF Former
      <4> QED BY <1>4, <3>1, <4>1, <4>3
    <3>5. f \in alike(old, f) /\ x \in alike(topology, x)
      BY <3>2
    <3>6. alike(old, f) = {f} /\ alike(topology, x) = {x}
      <4> HIDE DEF alike
      <4> QED BY <3>3, <3>4, <3>5
    <3>7. Cardinality(alike(old, f)) = 1 /\ Cardinality(alike(topology, x)) = 1
      BY <3>6, OneOf
    <3> HIDE DEF alike
    <3>8. key(old, f) = key(topology, x)
      BY <3>2, <3>7 DEF EndsOf
    <3> QED BY <1>3, <3>2, <3>8
  <2> HIDE DEF twin
  <2> QED BY <2>1, <2>2
<1>7. \A t, x : ends(t, x) = EndsOf(t, x)
  BY <1>5
<1> HIDE DEF ends, key, alike
<1>8. claimed = UNION {Same(old, topology, x) : x \in DOMAIN topology.edges}
  <2> HIDE DEF twin
  <2> QED BY <1>3, <1>6
<1>9. e \in 1..n
  BY <1>3
<1>10. CASE Same(old, topology, e) # {}
  <2>1. twin(e) = was(e) /\ was(e) # {}
    BY <1>6, <1>9, <1>10 DEF Former
  <2> HIDE DEF twin, was
  <2>2. PreviousRanks(previous, topology)[e] = rank(One(was(e)))
    BY <1>1, <2>1
  <2> QED BY <2>1, <2>2 DEF was, FormerRank
<1>11. CASE Same(old, topology, e) = {}
  <2>1. open(e) = was(e)
    BY <1>7, <1>8, <1>11 DEF Former, Freed
  <2>2. twin(e) = {}
    BY <1>6, <1>9, <1>11
  <2>3. e \in before(e) /\ \A x \in before(e) : x \in 1..n /\ twin(x) = {} /\ EndsOf(topology, x) = EndsOf(topology, e)
    BY <1>7, <1>9, <2>2
  <2> HIDE DEF twin, open, before
  <2>4. PreviousRanks(previous, topology)[e] = IF turn(e) <= Len(Sorted(open(e))) THEN rank(Sorted(open(e))[turn(e)]) ELSE None
    BY <1>1, <2>2
  <2>5. CASE was(e) = {}
    <3>1. Lists(Sorted({}), {})
      BY FS_EmptySet, Sorting
    <3>2. Len(Sorted({})) = 0
      BY <3>1, FS_EmptySet DEF Lists
    <3>3. turn(e) \in Nat /\ turn(e) >= 1
      <4>1. before(e) \in SUBSET (1..n) /\ before(e) # {}
        BY <2>3
      <4>2. IsFiniteSet(1..n)
        BY FS_Interval
      <4>3. IsFiniteSet(before(e))
        BY <4>1, <4>2, FS_Subset
      <4>4. turn(e) \in Nat /\ turn(e) # 0
        BY <4>1, <4>3, FS_CardinalityType, FS_EmptySet
      <4> HIDE DEF turn
      <4> QED BY <4>4
    <3> HIDE DEF turn, was, rank
    <3>4. PreviousRanks(previous, topology)[e] = None
      BY <2>1, <2>4, <2>5, <3>2, <3>3
    <3> QED BY <2>5, <3>4 DEF was, FormerRank
  <2>6. CASE was(e) # {}
    <3>1. PICK f : f \in was(e)
      BY <2>6
    <3>2. was(e) = {f}
      BY <1>4, <1>9, <3>1
    <3>3. ASSUME NEW x \in before(e) PROVE x = e
      <4>1. Same(old, topology, x) = {} /\ EndsOf(topology, x) = EndsOf(topology, e) /\ x \in 1..n
        BY <1>6, <2>3
      <4>2. f \in was(x)
        BY <1>11, <3>1, <4>1 DEF Former, Freed
      <4> QED BY <1>4, <1>9, <3>1, <4>1, <4>2
    <3>4. before(e) = {e}
      BY <2>3, <3>3
    <3>5. turn(e) = 1
      BY <3>4, OneOf
    <3>6. f \in Int
      BY <1>3, <3>1 DEF Former, Freed, Same
    <3>7. Lists(Sorted({f}), {f}) /\ Cardinality({f}) = 1
      BY <3>6, FS_Singleton, Sorting
    <3>8. PICK list : list = Sorted({f})
      OBVIOUS
    <3>9. Len(list) = 1 /\ list[1] = f
      <4>1. Len(list) = 1 /\ list \in Seq({f})
        BY <3>7, <3>8 DEF Lists
      <4> QED BY <4>1
    <3> HIDE DEF turn, was, rank
    <3>10. PreviousRanks(previous, topology)[e] = rank(f)
      BY <2>1, <2>4, <3>2, <3>5, <3>8, <3>9
    <3>11. One(was(e)) = f
      BY <3>2, OneOf
    <3> QED BY <2>6, <3>10, <3>11 DEF was, rank, FormerRank
  <2> QED BY <2>5, <2>6
<1> QED BY <1>10, <1>11

\* What is next to an edge: its continuations and those it continues.
LEMMA NeighboursAre ==
  ASSUME NEW edges, IsList(edges), NEW e \in DOMAIN edges
  PROVE  /\ NeighboursOf(edges, e) \in Seq(DOMAIN edges)
         /\ \A f : f \in Range(NeighboursOf(edges, e)) <=> f \in DOMAIN edges /\ Beside(edges, e, f)
<1> DEFINE A == {f \in DOMAIN edges : edges[f].from = edges[e].to}
           B == {f \in DOMAIN edges : edges[f].to = edges[e].from}
           near == Sorted(A) \o Sorted(B)
           positions == {n \in DOMAIN near : near[n] # e}
<1>1. NeighboursOf(edges, e) = Picked(near, positions)
  BY Zenon DEF NeighboursOf, Leaving
<1>2. PICK k \in Nat : DOMAIN edges = 1..k
  BY IsListMeans
<1>3. A \in SUBSET (1..k) /\ B \in SUBSET (1..k)
  BY <1>2
<1>4. \A f \in 1..k : Beside(edges, e, f) <=> f # e /\ (f \in A \/ f \in B)
  BY <1>2 DEF Beside
<1> HIDE DEF A, B
<1>5. /\ A \in SUBSET Int /\ IsFiniteSet(A) /\ B \in SUBSET Int /\ IsFiniteSet(B)
  <2>1. IsFiniteSet(1..k) /\ 1..k \in SUBSET Int
    BY FS_Interval
  <2> QED BY <1>3, <2>1, FS_Subset
<1>6. PICK a, b : a = Sorted(A) /\ b = Sorted(B)
  OBVIOUS
<1>7. /\ a \in Seq(1..k) /\ b \in Seq(1..k)
      /\ (\A f : f \in A <=> \E i \in 1..Len(a) : a[i] = f) /\ (\A f : f \in B <=> \E i \in 1..Len(b) : b[i] = f)
  <2>1. Lists(a, A) /\ Lists(b, B)
    BY <1>5, <1>6, Sorting
  <2>2. a \in Seq(A) /\ Range(a) = A /\ b \in Seq(B) /\ Range(b) = B
    BY <2>1 DEF Lists
  <2>3. IsList(a) /\ IsList(b) /\ (\A i \in 1..Len(a) : a[i] \in A) /\ (\A i \in 1..Len(b) : b[i] \in B)
    BY <2>2, SeqIsList
  <2>4. (\A f : f \in Range(a) <=> \E i \in 1..Len(a) : a[i] = f) /\ (\A f : f \in Range(b) <=> \E i \in 1..Len(b) : b[i] = f)
    BY <2>3, IsListMeans
  <2>5. a \in Seq(1..k)
    <3>1. \A i \in 1..Len(a) : a[i] \in 1..k
      BY <1>3, <2>3
    <3> QED BY <2>3, <3>1, ListOver
  <2>6. b \in Seq(1..k)
    <3>1. \A i \in 1..Len(b) : b[i] \in 1..k
      BY <1>3, <2>3
    <3> QED BY <2>3, <3>1, ListOver
  <2> HIDE DEF Range
  <2> QED BY <2>2, <2>4, <2>5, <2>6
<1>8. /\ near \in Seq(1..k) /\ Len(near) \in Nat /\ DOMAIN near = 1..Len(near)
      /\ \A f : (f \in A \/ f \in B) <=> \E i \in 1..Len(near) : near[i] = f
  <2>1. PICK c : c = a \o b
    OBVIOUS
  <2>2. c \in Seq(1..k) /\ Len(c) = Len(a) + Len(b) /\ \A i \in 1..Len(c) : c[i] = IF i <= Len(a) THEN a[i] ELSE b[i - Len(a)]
    BY <1>7, <2>1, ConcatProperties
  <2>3. Len(a) \in Nat /\ Len(b) \in Nat
    BY <1>7
  <2>4. \A i \in 1..Len(a) : i \in 1..Len(c) /\ c[i] = a[i]
    BY <2>2, <2>3
  <2>5. ASSUME NEW i \in 1..Len(b) PROVE Len(a) + i \in 1..Len(c) /\ c[Len(a) + i] = b[i]
    <3>1. PICK j \in Nat : j = Len(a) + i
      BY <2>3
    <3>2. j \in 1..Len(c) /\ ~(j <= Len(a)) /\ j - Len(a) = i
      BY <2>2, <2>3, <3>1
    <3> QED BY <2>2, <3>1, <3>2
  <2>6. ASSUME NEW i \in 1..Len(c) PROVE c[i] \in A \/ c[i] \in B
    <3>1. CASE i <= Len(a)
      <4>1. i \in 1..Len(a) /\ c[i] = a[i]
        BY <2>2, <2>3, <3>1
      <4> QED BY <1>7, <4>1
    <3>2. CASE ~(i <= Len(a))
      <4>1. i - Len(a) \in 1..Len(b) /\ c[i] = b[i - Len(a)]
        BY <2>2, <2>3, <3>2
      <4> QED BY <1>7, <4>1
    <3> QED BY <3>1, <3>2
  <2>7. near = c
    BY <1>6, <2>1
  <2>8. \A f : (f \in A \/ f \in B) <=> \E i \in 1..Len(c) : c[i] = f
    <3>1. ASSUME NEW f, f \in A \/ f \in B PROVE \E i \in 1..Len(c) : c[i] = f
      <4>1. CASE f \in A
        <5>1. PICK i \in 1..Len(a) : a[i] = f
          BY <1>7, <4>1
        <5> QED BY <2>4, <5>1
      <4>2. CASE f \in B
        <5>1. PICK i \in 1..Len(b) : b[i] = f
          BY <1>7, <4>2
        <5>2. PICK j : j = Len(a) + i
          OBVIOUS
        <5>3. j \in 1..Len(c) /\ c[j] = f
          BY <2>5, <5>1, <5>2
        <5> QED BY <5>3
      <4> QED BY <3>1, <4>1, <4>2
    <3> QED BY <2>6, <3>1
  <2>9. Len(c) \in Nat /\ DOMAIN c = 1..Len(c)
    BY <2>2
  <2> HIDE DEF near
  <2> QED BY <2>2, <2>7, <2>8, <2>9
<1>9. positions \in SUBSET (1..Len(near)) /\ \A n \in positions : near[n] # e
  <2> HIDE DEF near
  <2> QED BY <1>8
<1>10. \A n \in 1..Len(near) : near[n] # e => n \in positions
  <2> HIDE DEF near
  <2> QED BY <1>8
<1> HIDE DEF positions, near
<1>11. positions \in SUBSET Int /\ IsFiniteSet(positions)
  <2>1. IsFiniteSet(1..Len(near)) /\ 1..Len(near) \in SUBSET Int
    BY <1>8, FS_Interval
  <2> QED BY <1>8, <1>9, <2>1, FS_Subset
<1>12. PICK list : list = Picked(near, positions)
  OBVIOUS
<1>13. /\ IsList(list) /\ Len(list) = Cardinality(positions)
       /\ \A i \in 1..Len(list) : \E p \in positions : list[i] = near[p]
       /\ \A p \in positions : \E i \in 1..Len(list) : list[i] = near[p]
  BY <1>11, <1>12, Picking
<1>14. \A f : f \in Range(list) <=> \E i \in 1..Len(list) : list[i] = f
  BY <1>13, IsListMeans
<1>15. list \in Seq(1..k)
  <2>1. \A i \in 1..Len(list) : list[i] \in 1..k
    BY <1>8, <1>9, <1>13
  <2> QED BY <1>13, <2>1, ListOver
<1> HIDE DEF Range
<1>16. \A f : f \in Range(list) => f \in 1..k /\ Beside(edges, e, f)
  BY <1>3, <1>4, <1>8, <1>9, <1>13, <1>14
<1>17. \A f \in 1..k : Beside(edges, e, f) => f \in Range(list)
  BY <1>3, <1>4, <1>8, <1>10, <1>13, <1>14, Zenon
<1> QED BY <1>1, <1>2, <1>12, <1>15, <1>16, <1>17

-----------------------------------------------------------------------------
(* The anchors of what is new.                                             *)

Begun(edges, ranks) ==
  [anchor |-> ranks, came |-> << >>,
   layer |-> Sorted({e \in DOMAIN edges : ranks[e] = None /\ \E f \in Range(NeighboursOf(edges, e)) : ranks[f] # None})]

AnchorsOf(edges, c) ==
  [e \in DOMAIN edges |-> IF e \in Range(c.layer) THEN Max({c.anchor[f] : f \in Range(NeighboursOf(edges, e))}) ELSE c.anchor[e]]

MetBy(edges, c) == FlattenSeq([n \in DOMAIN c.layer |-> NeighboursOf(edges, c.layer[n])])

NextLayer(met, anchors) == Picked(met, {n \in DOMAIN met : anchors[met[n]] = None /\ \A m \in 1 .. n - 1 : met[m] # met[n]})

Placed(edges, c) ==
  [anchor |-> AnchorsOf(edges, c), came |-> c.came \o c.layer, layer |-> NextLayer(MetBy(edges, c), AnchorsOf(edges, c))]

Layered(after, edges, ranks) ==
  after = [n \in 0 .. Len(edges) |->
             IF n = 0 THEN Begun(edges, ranks)
             ELSE IF after[n - 1].layer = << >> THEN after[n - 1] ELSE Placed(edges, after[n - 1])]

\* What is at ranked edges is anchored to the highest of them.
AnchoredAt(anchor, edges, ranks, e) == \E f \in DOMAIN edges : Highest(edges, ranks, e, f) /\ anchor[e] = ranks[f]

\* What is anchored has come, what comes next is next to something, and the
\* first to come are those at ranked edges.
Kept(c, edges, ranks) ==
  /\ \A e \in AtRanked(edges, ranks) : \/ c.anchor = ranks /\ \E i \in 1..Len(c.layer) : c.layer[i] = e
                                       \/ AnchoredAt(c.anchor, edges, ranks, e)
  /\ \A e \in DOMAIN edges : ranks[e] # None => c.anchor[e] = ranks[e]
  /\ \A e \in DOMAIN edges : ranks[e] = None /\ c.anchor[e] # None => \E i \in 1..Len(c.came) : c.came[i] = e
  /\ \A i \in 1..Len(c.layer) : c.anchor[c.layer[i]] = None /\ \E f \in DOMAIN edges : Beside(edges, c.layer[i], f)

LayersOf(edges, ranks, b) ==
  {c \in [anchor : [DOMAIN edges -> 0..b], came : Seq(DOMAIN edges), layer : Seq(DOMAIN edges)] : Kept(c, edges, ranks)}

\* A layer by its parts.
LEMMA LayerMeans ==
  ASSUME NEW edges, NEW ranks, NEW b, NEW c \in LayersOf(edges, ranks, b)
  PROVE  /\ c.anchor \in [DOMAIN edges -> 0..b] /\ c.came \in Seq(DOMAIN edges) /\ c.layer \in Seq(DOMAIN edges)
         /\ Kept(c, edges, ranks)
BY DEF LayersOf

\* A layer from its parts.
LEMMA LayerBy ==
  ASSUME NEW edges, NEW ranks, NEW b, NEW anchor \in [DOMAIN edges -> 0..b], NEW came \in Seq(DOMAIN edges), NEW layer \in Seq(DOMAIN edges),
         NEW c, c = [anchor |-> anchor, came |-> came, layer |-> layer], Kept(c, edges, ranks)
  PROVE  c \in LayersOf(edges, ranks, b)
BY DEF LayersOf

\* The first layer.
LEMMA BegunIs ==
  ASSUME NEW edges, IsList(edges), NEW b \in Nat, NEW ranks \in [DOMAIN edges -> 0..b]
  PROVE  Begun(edges, ranks) \in LayersOf(edges, ranks, b)
<1> DEFINE first == {e \in DOMAIN edges : ranks[e] = None /\ \E f \in Range(NeighboursOf(edges, e)) : ranks[f] # None}
<1>1. PICK k \in Nat : DOMAIN edges = 1..k
  BY IsListMeans
<1>2. first \in SUBSET (1..k)
  BY <1>1
<1>3. \A e \in first : e \in DOMAIN edges /\ ranks[e] = None /\ \E f \in DOMAIN edges : Beside(edges, e, f)
  <2>1. SUFFICES ASSUME NEW e \in DOMAIN edges, NEW f \in Range(NeighboursOf(edges, e))
                 PROVE  f \in DOMAIN edges /\ Beside(edges, e, f)
    OBVIOUS
  <2> HIDE DEF Range
  <2> QED BY NeighboursAre
<1>3a. AtRanked(edges, ranks) \subseteq first
  <2>1. SUFFICES ASSUME NEW e \in DOMAIN edges, NEW f \in DOMAIN edges, Beside(edges, e, f) PROVE f \in Range(NeighboursOf(edges, e))
    BY DEF AtRanked, None
  <2> HIDE DEF Range
  <2> QED BY <2>1, NeighboursAre
<1> HIDE DEF first
<1>4. first \in SUBSET Int /\ IsFiniteSet(first)
  <2>1. IsFiniteSet(1..k) /\ 1..k \in SUBSET Int
    BY FS_Interval
  <2> QED BY <1>2, <2>1, FS_Subset
<1>5. PICK layer : layer = Sorted(first)
  OBVIOUS
<1>6. /\ layer \in Seq(first) /\ IsList(layer) /\ \A i \in 1..Len(layer) : layer[i] \in first
      /\ \A e \in first : \E i \in 1..Len(layer) : layer[i] = e
  <2>1. Lists(layer, first)
    BY <1>4, <1>5, Sorting
  <2>2. layer \in Seq(first)
    BY <2>1 DEF Lists
  <2>3. \A e \in first : \E i \in 1..Len(layer) : layer[i] = e
    BY <2>1, PlaceIs
  <2> QED BY <2>2, <2>3, SeqIsList
<1>7. layer \in Seq(DOMAIN edges)
  <2>1. \A i \in 1..Len(layer) : layer[i] \in DOMAIN edges
    BY <1>3, <1>6
  <2> QED BY <1>6, <2>1, ListOver
<1>8. PICK c : c = [anchor |-> ranks, came |-> << >>, layer |-> layer]
  OBVIOUS
<1>9. Begun(edges, ranks) = c
  BY <1>5, <1>8, Zenon DEF Begun, first
<1>10. << >> \in Seq(DOMAIN edges)
  OBVIOUS
<1>11. c.anchor = ranks /\ c.layer = layer
  BY <1>8
<1>12. Kept(c, edges, ranks)
  BY <1>3, <1>3a, <1>6, <1>11 DEF Kept
<1> QED BY <1>7, <1>8, <1>9, <1>10, <1>12, LayerBy

\* A layer takes its anchors, and those next to it come next.
LEMMA PlacedIs ==
  ASSUME NEW edges, IsList(edges), NEW b \in Nat, NEW ranks \in [DOMAIN edges -> 0..b], NEW c \in LayersOf(edges, ranks, b)
  PROVE  Placed(edges, c) \in LayersOf(edges, ranks, b) /\ \A e \in AtRanked(edges, ranks) : AnchoredAt(Placed(edges, c).anchor, edges, ranks, e)
<1>1. PICK k \in Nat : DOMAIN edges = 1..k
  BY IsListMeans
<1>2. PICK anchor, came, layer : anchor = c.anchor /\ came = c.came /\ layer = c.layer
  OBVIOUS
<1>3. /\ anchor \in [1..k -> 0..b] /\ came \in Seq(1..k) /\ layer \in Seq(1..k) /\ Kept(c, edges, ranks)
  BY <1>1, <1>2, LayerMeans
<1>4. /\ \A e \in 1..k : ranks[e] # None => anchor[e] = ranks[e]
      /\ \A e \in 1..k : ranks[e] = None /\ anchor[e] # None => \E i \in 1..Len(came) : came[i] = e
      /\ \A i \in 1..Len(layer) : anchor[layer[i]] = None /\ \E f \in 1..k : Beside(edges, layer[i], f)
      /\ \A e \in AtRanked(edges, ranks) : (anchor = ranks /\ \E i \in 1..Len(layer) : layer[i] = e) \/ AnchoredAt(anchor, edges, ranks, e)
  BY <1>1, <1>2, <1>3 DEF Kept
<1>5. IsList(layer) /\ \A i \in 1..Len(layer) : layer[i] \in 1..k
  BY <1>3, SeqIsList
<1>6. Len(layer) \in Nat /\ DOMAIN layer = 1..Len(layer) /\ \A e : e \in Range(layer) <=> \E i \in 1..Len(layer) : layer[i] = e
  BY <1>5, IsListMeans
<1> DEFINE near(e) == NeighboursOf(edges, e)
           values(e) == {anchor[f] : f \in Range(near(e))}
<1>7. ASSUME NEW e \in 1..k PROVE near(e) \in Seq(1..k) /\ IsList(near(e)) /\ \A f : f \in Range(near(e)) <=> f \in 1..k /\ Beside(edges, e, f)
  <2>1. e \in DOMAIN edges
    BY <1>1
  <2> HIDE DEF Range
  <2>2. near(e) \in Seq(DOMAIN edges) /\ \A f : f \in Range(near(e)) <=> f \in DOMAIN edges /\ Beside(edges, e, f)
    BY <2>1, NeighboursAre
  <2> HIDE DEF near
  <2> QED BY <1>1, <2>2, SeqIsList
<1> HIDE DEF near, Range
<1>8. ASSUME NEW e \in Range(layer) PROVE e \in 1..k /\ Max(values(e)) \in 0..b /\ Max(values(e)) \in values(e) /\ \A y \in values(e) : y <= Max(values(e))
  <2>1. e \in 1..k /\ \E f \in 1..k : Beside(edges, e, f)
    BY <1>4, <1>5, <1>6
  <2>2. values(e) \in SUBSET (0..b) /\ values(e) # {}
    BY <1>3, <1>7, <2>1
  <2> HIDE DEF values
  <2>3. Max(values(e)) \in values(e) /\ \A y \in values(e) : y <= Max(values(e))
    BY <2>2, MaxIsOneOf
  <2> QED BY <2>1, <2>2, <2>3
<1>9. PICK anchors : anchors = AnchorsOf(edges, c)
  OBVIOUS
<1>10. anchors = [e \in 1..k |-> IF e \in Range(layer) THEN Max(values(e)) ELSE anchor[e]]
  BY <1>1, <1>2, <1>9 DEF AnchorsOf, near
<1>10a. ASSUME NEW e \in Range(layer), e \in AtRanked(edges, ranks), anchor = ranks PROVE AnchoredAt(anchors, edges, ranks, e)
  <2>1. anchors[e] = Max(values(e)) /\ e \in 1..k
    BY <1>8, <1>10, <1>10a
  <2>2. PICK f \in 1..k : f \in Range(near(e)) /\ Max(values(e)) = anchor[f]
    BY <1>7, <1>8, <1>10a, <2>1
  <2>3. \A g \in 1..k : Beside(edges, e, g) => anchor[g] <= anchor[f]
    BY <1>7, <1>8, <1>10a, <2>1, <2>2
  <2>4. PICK g \in 1..k : Beside(edges, e, g) /\ ranks[g] # None
    BY <1>1, <1>10a DEF AtRanked, None
  <2>5. ranks[f] # None
    <3>1. ranks[g] \in 0..b /\ ranks[f] \in 0..b /\ ranks[g] <= ranks[f]
      BY <1>1, <1>10a, <2>2, <2>3, <2>4
    <3> QED BY <2>4, <3>1 DEF None
  <2>6. Beside(edges, e, f)
    BY <1>7, <2>1, <2>2
  <2> HIDE DEF values
  <2> QED BY <1>1, <1>10a, <2>1, <2>2, <2>3, <2>5, <2>6 DEF AnchoredAt, Highest, None
<1> HIDE DEF values
<1>11. anchors \in [1..k -> 0..b]
  BY <1>3, <1>8, <1>10
<1>12. \A e \in 1..k : e \notin Range(layer) => anchors[e] = anchor[e]
  BY <1>10
<1>13. PICK joined : joined = came \o layer
  OBVIOUS
<1>14. /\ joined \in Seq(1..k)
       /\ \A i \in 1..Len(came) : \E j \in 1..Len(joined) : joined[j] = came[i]
       /\ \A i \in 1..Len(layer) : \E j \in 1..Len(joined) : joined[j] = layer[i]
  <2>1. joined \in Seq(1..k) /\ Len(joined) = Len(came) + Len(layer)
        /\ \A i \in 1..Len(joined) : joined[i] = IF i <= Len(came) THEN came[i] ELSE layer[i - Len(came)]
    BY <1>3, <1>13, ConcatProperties
  <2>2. Len(came) \in Nat /\ Len(layer) \in Nat
    BY <1>3
  <2>3. \A i \in 1..Len(came) : i \in 1..Len(joined) /\ joined[i] = came[i]
    BY <2>1, <2>2
  <2>4. ASSUME NEW i \in 1..Len(layer) PROVE \E j \in 1..Len(joined) : joined[j] = layer[i]
    <3>1. PICK j \in Nat : j = Len(came) + i
      BY <2>2
    <3>2. j \in 1..Len(joined) /\ ~(j <= Len(came)) /\ j - Len(came) = i
      BY <2>1, <2>2, <3>1
    <3>3. joined[j] = layer[i]
      BY <2>1, <3>2
    <3> QED BY <3>2, <3>3
  <2> QED BY <2>1, <2>3, <2>4
<1>15. PICK lists : lists = [n \in 1..Len(layer) |-> near(layer[n])]
  OBVIOUS
<1>16. /\ IsList(lists) /\ Len(lists) = Len(layer) /\ \A n \in 1..Len(layer) : lists[n] = near(layer[n])
  <2>1. DOMAIN lists = 1..Len(layer) /\ lists = [n \in 1..Len(layer) |-> lists[n]] /\ \A n \in 1..Len(layer) : lists[n] = near(layer[n])
    BY <1>15
  <2>2. IsList(lists) /\ Len(lists) = Len(layer)
    BY <1>6, <2>1, ListIs
  <2> QED BY <2>1, <2>2
<1>17. PICK met : met = MetBy(edges, c)
  OBVIOUS
<1>18. IsList(met) /\ \A e \in Range(met) : \E i \in 1..Len(layer) : e \in Range(near(layer[i]))
  <2>1. met = FlattenSeq(lists)
    BY <1>2, <1>6, <1>15, <1>17, Zenon DEF MetBy, near
  <2>2. \A i \in 1..Len(lists) : IsList(lists[i])
    BY <1>5, <1>7, <1>16
  <2> QED BY <1>16, <2>1, <2>2, Flattening
<1>19. \A i \in 1..Len(met) : met[i] \in Range(met)
  BY <1>18, IsListMeans
<1>20. ASSUME NEW i \in 1..Len(met) PROVE met[i] \in 1..k /\ \E f \in 1..k : Beside(edges, met[i], f)
  <2>1. PICK j \in 1..Len(layer) : met[i] \in Range(near(layer[j]))
    BY <1>18, <1>19
  <2>2. layer[j] \in 1..k /\ met[i] \in 1..k /\ Beside(edges, layer[j], met[i])
    BY <1>5, <1>7, <2>1
  <2>3. Beside(edges, met[i], layer[j])
    BY <2>2 DEF Beside
  <2> QED BY <2>2, <2>3
<1> DEFINE positions == {n \in DOMAIN met : anchors[met[n]] = None /\ \A m \in 1 .. n - 1 : met[m] # met[n]}
<1>21. positions \in SUBSET (1..Len(met)) /\ (\A n \in positions : anchors[met[n]] = None) /\ Len(met) \in Nat
  BY <1>18, IsListMeans
<1>22. PICK next : next = NextLayer(met, anchors)
  OBVIOUS
<1>23. next = Picked(met, positions)
  BY <1>22, Zenon DEF NextLayer
<1> HIDE DEF positions
<1>24. positions \in SUBSET Int /\ IsFiniteSet(positions)
  <2>1. IsFiniteSet(1..Len(met)) /\ 1..Len(met) \in SUBSET Int
    BY <1>21, FS_Interval
  <2> QED BY <1>21, <2>1, FS_Subset
<1>25. IsList(next) /\ \A i \in 1..Len(next) : \E p \in positions : next[i] = met[p]
  BY <1>23, <1>24, Picking
<1>26. \A i \in 1..Len(next) : next[i] \in 1..k /\ anchors[next[i]] = None /\ \E f \in 1..k : Beside(edges, next[i], f)
  BY <1>20, <1>21, <1>25
<1>27. next \in Seq(1..k)
  BY <1>25, <1>26, ListOver
<1>28. PICK d : d = [anchor |-> anchors, came |-> joined, layer |-> next]
  OBVIOUS
<1>29. Placed(edges, c) = d
  BY <1>2, <1>9, <1>13, <1>17, <1>22, <1>28, Zenon DEF Placed
<1>30. d.anchor = anchors /\ d.came = joined /\ d.layer = next
  BY <1>28
<1>31. \A e \in 1..k : ranks[e] # None => anchors[e] = ranks[e]
  <2>1. SUFFICES ASSUME NEW e \in 1..k, ranks[e] # None PROVE anchors[e] = ranks[e]
    OBVIOUS
  <2>2. anchor[e] = ranks[e] /\ anchor[e] # None
    BY <1>4, <2>1
  <2>3. e \notin Range(layer)
    BY <1>4, <1>6, <2>2
  <2> QED BY <1>12, <2>2, <2>3
<1>32. ASSUME NEW e \in 1..k, ranks[e] = None, anchors[e] # None PROVE \E j \in 1..Len(joined) : joined[j] = e
  <2>1. CASE e \in Range(layer)
    BY <1>6, <1>14, <2>1
  <2>2. CASE e \notin Range(layer)
    <3>1. PICK i \in 1..Len(came) : came[i] = e
      BY <1>4, <1>12, <1>32, <2>2
    <3> QED BY <1>14, <3>1
  <2> QED BY <2>1, <2>2
<1>33. ASSUME NEW e \in AtRanked(edges, ranks) PROVE AnchoredAt(anchors, edges, ranks, e)
  <2>1. CASE e \in Range(layer) /\ anchor = ranks
    BY <1>10a, <1>33, <2>1
  <2>2. CASE ~(e \in Range(layer) /\ anchor = ranks)
    <3>1. AnchoredAt(anchor, edges, ranks, e)
      BY <1>4, <1>6, <1>33, <2>2
    <3>2. anchor[e] # None /\ e \in 1..k
      BY <1>1, <3>1, <1>33 DEF AnchoredAt, Highest, AtRanked, None
    <3>3. anchors[e] = anchor[e]
      BY <1>4, <1>6, <1>12, <3>2
    <3> QED BY <3>1, <3>3 DEF AnchoredAt
  <2> QED BY <2>1, <2>2
<1>34. Kept(d, edges, ranks)
  <2>1. /\ \A e \in AtRanked(edges, ranks) : AnchoredAt(d.anchor, edges, ranks, e)
        /\ \A e \in DOMAIN edges : ranks[e] # None => d.anchor[e] = ranks[e]
        /\ \A e \in DOMAIN edges : ranks[e] = None /\ d.anchor[e] # None => \E i \in 1..Len(d.came) : d.came[i] = e
        /\ \A i \in 1..Len(d.layer) : d.anchor[d.layer[i]] = None /\ \E f \in DOMAIN edges : Beside(edges, d.layer[i], f)
    BY <1>1, <1>26, <1>30, <1>31, <1>32, <1>33
  <2> QED BY <2>1, Zenon DEF Kept
<1>35. d \in LayersOf(edges, ranks, b)
  BY <1>1, <1>11, <1>14, <1>27, <1>28, <1>34, LayerBy
<1> QED BY <1>29, <1>30, <1>33, <1>35

\* The anchors, after as many layers as there are edges.
LEMMA AnchoredIs ==
  ASSUME NEW edges, IsList(edges), NEW b \in Nat, NEW ranks \in [DOMAIN edges -> 0..b]
  PROVE  Anchored(edges, ranks) \in LayersOf(edges, ranks, b) /\ \A e \in AtRanked(edges, ranks) : AnchoredAt(Anchored(edges, ranks).anchor, edges, ranks, e)
<1> DEFINE D == LayersOf(edges, ranks, b)
           start == Begun(edges, ranks)
<1>1. PICK n \in Nat : n = Len(edges) /\ DOMAIN edges = 1..n
  BY IsListMeans
<1>2. start \in D
  BY BegunIs
<1>3. \A c \in D : Placed(edges, c) \in D
  BY PlacedIs
<1> HIDE DEF D, start
<1> DEFINE next == [p \in (1..n) \X D |-> IF p[2].layer = << >> THEN p[2] ELSE Placed(edges, p[2])]
<1>4. next \in [(1..n) \X D -> D]
  <2>1. \A p \in (1..n) \X D : (IF p[2].layer = << >> THEN p[2] ELSE Placed(edges, p[2])) \in D
    <3>1. \A p \in (1..n) \X D : p[2] \in D
      OBVIOUS
    <3> QED BY <1>3, <3>1
  <2> QED BY <2>1
<1>5. PICK f : Follows(f, n, D, start, next)
  <2> HIDE DEF next
  <2> QED BY <1>2, <1>4, Stepwise
<1>6. f \in [0..n -> D] /\ f[0] = start /\ \A v \in 1..n : f[v] = next[<<v, f[v - 1]>>]
  BY <1>5, Zenon DEF Follows
<1>7. \A v \in 0..n : f[v] = IF v = 0 THEN start ELSE IF f[v - 1].layer = << >> THEN f[v - 1] ELSE Placed(edges, f[v - 1])
  <2>1. SUFFICES ASSUME NEW v \in 0..n, v # 0
                 PROVE  f[v] = IF f[v - 1].layer = << >> THEN f[v - 1] ELSE Placed(edges, f[v - 1])
    BY <1>6
  <2>2. v \in 1..n /\ v - 1 \in 0..n
    BY <2>1
  <2>3. PICK c \in D : c = f[v - 1]
    BY <1>6, <2>2
  <2>4. f[v] = next[<<v, c>>]
    BY <1>6, <2>2, <2>3
  <2> QED BY <2>2, <2>3, <2>4
<1>8. Layered(f, edges, ranks)
  <2>1. f = [v \in 0..n |-> f[v]]
    BY <1>6
  <2>2. f = [v \in 0..n |-> IF v = 0 THEN start ELSE IF f[v - 1].layer = << >> THEN f[v - 1] ELSE Placed(edges, f[v - 1])]
    BY <1>7, <2>1
  <2> QED BY <1>1, <2>2, Zenon DEF Layered, start
<1> DEFINE g == CHOOSE a : Layered(a, edges, ranks)
<1>9. Layered(g, edges, ranks)
  BY <1>8, Zenon
<1>10. Anchored(edges, ranks) = g[n]
  BY <1>1, Zenon DEF Anchored, Layered, Begun, Placed, AnchorsOf, MetBy, NextLayer
<1> HIDE DEF g
<1>11. \A v \in 0..n : g[v] = IF v = 0 THEN start ELSE IF g[v - 1].layer = << >> THEN g[v - 1] ELSE Placed(edges, g[v - 1])
  BY <1>1, <1>9, Zenon DEF Layered, start
<1> DEFINE T == {v \in Nat : v <= n => g[v] \in D}
<1>12. 0 \in T
  BY <1>2, <1>11
<1>13. ASSUME NEW v \in Nat, v \in T PROVE v + 1 \in T
  <2>1. v + 1 <= n => v <= n /\ v + 1 \in 0..n /\ v + 1 # 0 /\ (v + 1) - 1 = v
    BY <1>1
  <2> QED BY <1>3, <1>11, <1>13, <2>1
<1>14. n \in T
  <2> HIDE DEF T
  <2> QED BY <1>1, <1>12, <1>13, StepByStep
<1>15. ASSUME NEW e \in AtRanked(edges, ranks) PROVE AnchoredAt(g[n].anchor, edges, ranks, e)
  <2>1. n # 0 /\ n - 1 \in 0..n /\ n \in 0..n
    BY <1>1, <1>15 DEF AtRanked, None
  <2>2. PICK c : c = g[n - 1]
    OBVIOUS
  <2>3. g[n] = IF c.layer = << >> THEN c ELSE Placed(edges, c)
    BY <1>11, <2>1, <2>2
  <2>4. CASE c.layer = << >>
    <3>1. Kept(g[n], edges, ranks) /\ g[n].layer = << >>
      BY <1>1, <1>14, <2>3, <2>4, LayerMeans DEF D
    <3> QED BY <1>15, <3>1 DEF Kept
  <2>5. CASE c.layer # << >>
    <3>1. c \in D
      <4>1. n - 1 \in Nat /\ \A v \in Nat : v \in T
        <5> HIDE DEF T
        <5> QED BY <1>12, <1>13, <2>1, StepByStep
      <4> QED BY <2>1, <2>2, <4>1
    <3> QED BY <1>15, <2>3, <2>5, <3>1, PlacedIs DEF D
  <2> QED BY <2>4, <2>5
<1> QED BY <1>1, <1>10, <1>14, <1>15 DEF D

\* The order that is carried over lists every edge once and keeps ranks.
LEMMA PatchLists ==
  ASSUME NEW topology, IsTopology(topology), NEW ranks, IsRanking(ranks, Len(topology.edges))
  PROVE  /\ Lists(PatchEdgeOrder(topology, ranks), DOMAIN topology.edges)
         /\ KeepsRanks(PatchEdgeOrder(topology, ranks), topology.edges, ranks)
<1> DEFINE edges == topology.edges
<1>1. edges = topology.edges
  OBVIOUS
<1> HIDE DEF edges
<1>2. IsList(edges) /\ IsGraph(GraphOf(topology), DOMAIN edges)
  BY <1>1, GraphIs DEF IsTopology
<1>3. PICK k \in Nat : k = Len(edges) /\ DOMAIN edges = 1..k
  BY <1>2, IsListMeans
<1>4. PICK b \in Nat : ranks \in [1..k -> 0..b]
  BY <1>1, <1>3 DEF IsRanking
<1>5. \A e, f \in 1..k : ranks[e] = ranks[f] /\ ranks[e] # None => e = f
  BY <1>1, <1>3 DEF IsRanking
<1>6. PICK c : c = Anchored(edges, ranks)
  OBVIOUS
<1>7. c \in LayersOf(edges, ranks, b)
  BY <1>2, <1>3, <1>4, <1>6, AnchoredIs
<1> DEFINE anchor == c.anchor
           came == c.came
<1>8. anchor = c.anchor /\ came = c.came
  OBVIOUS
<1> HIDE DEF anchor, came
<1>9. anchor \in [1..k -> 0..b] /\ came \in Seq(1..k) /\ Kept(c, edges, ranks)
  BY <1>3, <1>7, <1>8, LayerMeans
<1>10. /\ \A e \in 1..k : ranks[e] # None => anchor[e] = ranks[e]
       /\ \A e \in 1..k : ranks[e] = None /\ anchor[e] # None => \E i \in 1..Len(came) : came[i] = e
       /\ \A e \in AtRanked(edges, ranks) : AnchoredAt(anchor, edges, ranks, e)
  BY <1>2, <1>3, <1>4, <1>6, <1>8, <1>9, AnchoredIs DEF Kept
<1> DEFINE since(e) == IF ranks[e] # None THEN 0 ELSE CHOOSE n \in DOMAIN came : came[n] = e
           S == {e \in DOMAIN edges : anchor[e] # None}
           isolated == {e \in DOMAIN edges : anchor[e] = None}
           comes(x, y) == anchor[x] < anchor[y] \/ (anchor[x] = anchor[y] /\ since(x) < since(y))
           R == {p \in S \X S : comes(p[1], p[2])}
<1>11. S \in SUBSET (1..k) /\ isolated \in SUBSET (1..k) /\ S \cap isolated = {} /\ isolated \cup S = 1..k
  BY <1>3
<1>12. \A e \in S : anchor[e] \in Nat /\ anchor[e] # None /\ e \in 1..k
  BY <1>3, <1>9
<1> HIDE DEF S, isolated
<1>13. ASSUME NEW e \in S
       PROVE  /\ since(e) \in Nat
              /\ ranks[e] = None => since(e) # 0 /\ came[since(e)] = e
              /\ ranks[e] # None => since(e) = 0 /\ anchor[e] = ranks[e]
  <2>1. DOMAIN came = 1..Len(came) /\ Len(came) \in Nat
    BY <1>9
  <2>2. CASE ranks[e] = None
    <3>1. \E i \in DOMAIN came : came[i] = e
      BY <1>10, <1>12, <2>1, <2>2
    <3>2. PICK i : i = CHOOSE n \in DOMAIN came : came[n] = e
      OBVIOUS
    <3>3. i \in DOMAIN came /\ came[i] = e
      BY <3>1, <3>2
    <3> QED BY <2>1, <2>2, <3>2, <3>3
  <2>3. CASE ranks[e] # None
    BY <1>10, <1>12, <2>3
  <2> QED BY <2>2, <2>3
<1> HIDE DEF since
<1>14. \A x, y \in S : anchor[x] = anchor[y] /\ since(x) = since(y) => x = y
  <2>1. SUFFICES ASSUME NEW x \in S, NEW y \in S, anchor[x] = anchor[y], since(x) = since(y) PROVE x = y
    OBVIOUS
  <2>2. CASE ranks[x] = None
    <3>1. ranks[y] = None
      BY <1>13, <2>1, <2>2
    <3> QED BY <1>13, <2>1, <2>2, <3>1
  <2>3. CASE ranks[x] # None
    <3>1. ranks[y] # None
      BY <1>13, <2>1, <2>3
    <3>2. ranks[x] = ranks[y]
      BY <1>13, <2>1, <2>3, <3>1
    <3> QED BY <1>5, <1>12, <2>3, <3>2
  <2> QED BY <2>2, <2>3
<1>15. \A x, y \in S : x # y => comes(x, y) \/ comes(y, x)
  <2>1. SUFFICES ASSUME NEW x \in S, NEW y \in S, x # y PROVE comes(x, y) \/ comes(y, x)
    OBVIOUS
  <2>2. anchor[x] \in Nat /\ anchor[y] \in Nat /\ since(x) \in Nat /\ since(y) \in Nat /\ (anchor[x] # anchor[y] \/ since(x) # since(y))
    BY <1>12, <1>13, <1>14, <2>1
  <2> QED BY <2>2
<1>16. \A x \in S : ~comes(x, x)
  <2>1. SUFFICES ASSUME NEW x \in S PROVE ~comes(x, x)
    OBVIOUS
  <2>2. anchor[x] \in Nat /\ since(x) \in Nat
    BY <1>12, <1>13
  <2> QED BY <2>2
<1>17. \A x, y, z \in S : comes(x, y) /\ comes(y, z) => comes(x, z)
  <2>1. SUFFICES ASSUME NEW x \in S, NEW y \in S, NEW z \in S, comes(x, y), comes(y, z) PROVE comes(x, z)
    OBVIOUS
  <2>2. /\ anchor[x] \in Nat /\ anchor[y] \in Nat /\ anchor[z] \in Nat
        /\ since(x) \in Nat /\ since(y) \in Nat /\ since(z) \in Nat
    BY <1>12, <1>13
  <2> QED BY <2>1, <2>2
<1> HIDE DEF comes
<1>18. Orders(R, S)
  <2>1. \A x, y \in S : <<x, y>> \in R <=> comes(x, y)
    OBVIOUS
  <2> HIDE DEF R
  <2> QED BY <1>15, <1>16, <1>17, <2>1 DEF Orders
<1>19. IsFiniteSet(S)
  <2>1. IsFiniteSet(1..k)
    BY FS_Interval
  <2> QED BY <1>11, <2>1, FS_Subset
<1>20. PICK behind : behind = Listed(S, R)
  OBVIOUS
<1>22. behind = [n \in 1..Cardinality(S) |-> CHOOSE x \in S : Cardinality({y \in S : comes(y, x)}) = n - 1]
  <2>1. ASSUME NEW x \in S PROVE {y \in S : <<y, x>> \in R} = {y \in S : comes(y, x)}
    OBVIOUS
  <2>2. Listed(S, R) = [n \in 1..Cardinality(S) |-> CHOOSE x \in S : Cardinality({y \in S : <<y, x>> \in R}) = n - 1]
    BY Zenon DEF Listed
  <2>3. ASSUME NEW n \in 1..Cardinality(S)
        PROVE  (CHOOSE x \in S : Cardinality({y \in S : <<y, x>> \in R}) = n - 1)
               = (CHOOSE x \in S : Cardinality({y \in S : comes(y, x)}) = n - 1)
    <3> HIDE DEF R
    <3>1. \A x : x \in S /\ Cardinality({y \in S : <<y, x>> \in R}) = n - 1
                 <=> x \in S /\ Cardinality({y \in S : comes(y, x)}) = n - 1
      BY <2>1
    <3> QED BY <3>1
  <2> HIDE DEF R
  <2> QED BY <1>20, <2>2, <2>3
<1>23. PICK graph : graph = GraphOf(topology)
  OBVIOUS
<1>24. Lists(Dissect(graph, isolated), isolated)
  BY <1>2, <1>3, <1>11, <1>23, DissectLists
<1>25. PICK order : order = Dissect(graph, isolated) \o behind
  OBVIOUS
<1>26. PatchEdgeOrder(topology, ranks) = order
  <2>1. PICK tail : tail = Arranged(S, LAMBDA x, y : anchor[x] < anchor[y] \/ (anchor[x] = anchor[y] /\ since(x) < since(y)))
    OBVIOUS
  <2>2. tail = behind
    BY <1>22, <2>1, Zenon DEF Arranged, comes
  <2>3. Inserted(graph, edges, ranks, c) = Dissect(graph, isolated) \o tail
    BY <2>1, Zenon DEF Inserted, since, S, isolated, Arranged, anchor, came
  <2> DEFINE all == {Inserted(g, edges, ranks, d) : g \in {GraphOf(topology)}, d \in {Anchored(edges, ranks)}}
  <2>4. PatchEdgeOrder(topology, ranks) = One(all)
    BY DEF PatchEdgeOrder, edges
  <2>5. all = {order}
    BY <1>6, <1>23, <1>25, <2>2, <2>3
  <2>6. One({order}) \in {order}
    BY Zenon DEF One
  <2> HIDE DEF all
  <2> QED BY <2>4, <2>5, <2>6
<1>27. Lists(order, 1..k) /\ \A x, y \in S : comes(x, y) => Place(order, x) < Place(order, y)
  <2>1. PICK head, A, B, Q : head = Dissect(graph, isolated) /\ A = isolated /\ B = S /\ Q = R
    OBVIOUS
  <2>2. A \cap B = {} /\ IsFiniteSet(B) /\ Orders(Q, B) /\ Lists(head, A) /\ order = head \o Listed(B, Q) /\ A \cup B = 1..k
    BY <1>11, <1>18, <1>19, <1>20, <1>24, <1>25, <2>1
  <2>3. Lists(order, A \cup B) /\ \A x, y \in B : <<x, y>> \in Q => Place(order, x) < Place(order, y)
    BY ONLY <2>2, ListsBehind
  <2>4. \A x, y \in S : comes(x, y) => <<x, y>> \in R
    BY DEF R
  <2> QED BY <2>1, <2>2, <2>3, <2>4
<1>28. PICK after : after = [e \in 1..k |-> IF e \in S THEN since(e) ELSE 0]
  OBVIOUS
<1>29. \A e \in 1..k : e \in S <=> anchor[e] # None
  BY <1>3 DEF S
<1>30. Anchors(edges, ranks, anchor, after)
  <2>1. ASSUME NEW e \in 1..k PROVE anchor[e] \in Nat /\ after[e] \in Nat /\ (ranks[e] # 0 => anchor[e] = ranks[e] /\ after[e] = 0)
    BY <1>9, <1>10, <1>13, <1>28, <1>29 DEF None
  <2>2. ASSUME NEW e \in AtRanked(edges, ranks) PROVE after[e] # 0 /\ AnchoredAt(anchor, edges, ranks, e)
    <3>1. e \in 1..k /\ ranks[e] = None /\ AnchoredAt(anchor, edges, ranks, e)
      BY <1>3, <1>10, <2>2 DEF AtRanked, None
    <3>2. e \in S
      BY <1>29, <3>1 DEF AnchoredAt, Highest, None
    <3> QED BY <1>13, <1>28, <3>1, <3>2
  <2> QED BY <1>3, <1>5, <2>1, <2>2 DEF Anchors, AnchoredAt, None
<1>31. GoesBehind(order, 1..k, anchor, after)
  <2>1. SUFFICES ASSUME NEW x \in 1..k, NEW y \in 1..k, anchor[x] # 0, anchor[y] # 0,
                        anchor[x] < anchor[y] \/ (anchor[x] = anchor[y] /\ after[x] < after[y])
                 PROVE  Place(order, x) < Place(order, y)
    BY DEF GoesBehind
  <2>2. x \in S /\ y \in S
    BY <1>29, <2>1 DEF None
  <2> QED BY <1>27, <1>28, <2>1, <2>2 DEF comes
<1>32. KeepsRanks(order, edges, ranks)
  BY <1>3, <1>27, <1>30, <1>31, AnchorsKeepRanks
<1> QED BY <1>1, <1>3, <1>26, <1>27, <1>32

\* What keeps the ranks of the previous build is carried over.
LEMMA RanksCarryOver ==
  ASSUME NEW old, NEW new, IsTopology(new.topology), IsTopology(old.topology), NodesDiffer(new.topology),
         Lists(old.order, DOMAIN old.topology.edges), Lists(new.order, DOMAIN new.topology.edges),
         TellsApart(old.topology, new.topology),
         KeepsRanks(new.order, new.topology.edges, PreviousRanks(old, new.topology))
  PROVE  CarriedOver(old, new)
<1> DEFINE edges(d)   == DOMAIN d.topology.edges
           rank(d, e) == CHOOSE n \in DOMAIN d.order : d.order[n] = e
           former(e)  == Former(old.topology, new.topology, e)
           kept       == {e \in edges(new) : former(e) # {}}
           was(e)     == rank(old, One(former(e)))
           beside(e)  == {f \in kept : \/ new.topology.edges[e].to = new.topology.edges[f].from
                                       \/ new.topology.edges[f].to = new.topology.edges[e].from}
<1>1. PICK es, order, previous, topology : es = new.topology.edges /\ order = new.order /\ previous = old /\ topology = new.topology
  OBVIOUS
<1>2. PICK ranks : ranks = PreviousRanks(previous, topology)
  OBVIOUS
<1>3. PICK E : E = DOMAIN es
  OBVIOUS
<1>4. Lists(order, E) /\ KeepsRanks(order, es, ranks) /\ edges(new) = E
  BY <1>1, <1>2, <1>3
<1>5. \A e : former(e) = Former(previous.topology, topology, e)
  BY <1>1
<1>6. \A e : former(e) \in SUBSET DOMAIN old.topology.edges
  BY DEF Former, Freed, Same
<1> HIDE DEF former
<1>7. PICK b \in Nat : ranks \in [E -> 0..b] /\ \A e, f \in E : ranks[e] = ranks[f] /\ ranks[e] # None => e = f
  <2>1. DOMAIN es = 1..Len(es)
    BY <1>1, IsListMeans DEF IsTopology
  <2>2. IsRanking(ranks, Len(es))
    BY <1>1, <1>2, RanksAre
  <2> QED BY <1>3, <2>1, <2>2 DEF IsRanking
<1>8. (\A e : rank(new, e) = Place(order, e)) /\ \A e : was(e) = Place(old.order, One(former(e)))
  BY <1>1 DEF Place
<1> HIDE DEF was, rank
<1>9. ASSUME NEW e \in E PROVE ranks[e] = IF former(e) = {} THEN None ELSE was(e)
  <2>1. IsTopology(topology) /\ IsTopology(previous.topology) /\ TellsApart(previous.topology, topology) /\ e \in DOMAIN topology.edges
    BY <1>1, <1>3
  <2>2. PreviousRanks(previous, topology)[e] = FormerRank(previous, topology, e)
    BY ONLY <2>1, RanksAreFormer
  <2>3. PICK F : F = former(e)
    OBVIOUS
  <2>4. FormerRank(previous, topology, e) = IF F = {} THEN None ELSE Place(old.order, One(F))
    BY <1>1, <1>5, <2>3 DEF FormerRank
  <2> QED BY <1>2, <1>8, <2>2, <2>3, <2>4
<1>10. ASSUME NEW e \in E, former(e) # {} PROVE was(e) # None
  <2>1. One(former(e)) \in former(e)
    BY <1>10, Zenon DEF One
  <2>2. PICK f \in DOMAIN old.topology.edges : f = One(former(e))
    BY <1>6, <2>1
  <2>3. PICK D, list : D = DOMAIN old.topology.edges /\ list = old.order
    OBVIOUS
  <2>4. Lists(list, D) /\ f \in D
    BY <2>3
  <2>5. Place(list, f) \in 1..Len(list)
    BY ONLY <2>4, PlaceIs
  <2> QED BY <1>8, <2>2, <2>3, <2>5 DEF None
<1>11. \A e \in E : e \in kept <=> ranks[e] # None
  BY <1>4, <1>9, <1>10
<1>12. \A e \in kept : was(e) = ranks[e] /\ e \in E
  BY <1>4, <1>9
<1> HIDE DEF kept
<1>13. \A e, f \in kept : was(e) < was(f) => rank(new, e) < rank(new, f)
  BY <1>3, <1>4, <1>11, <1>12, <1>8 DEF KeepsRanks, None
<1>14. ASSUME NEW e \in edges(new) \ kept, beside(e) # {}
       PROVE  LET anchor == CHOOSE f \in beside(e) : \A g \in beside(e) : was(g) <= was(f)
              IN  /\ rank(new, anchor) < rank(new, e)
                  /\ \A g \in kept : rank(new, g) < rank(new, e) => rank(new, g) <= rank(new, anchor)
  <2>1. e \in E /\ ranks[e] = None
    BY <1>4, <1>11
  <2>2. \A f : f \in beside(e) <=> f \in E /\ Beside(es, e, f) /\ ranks[f] # None
    BY <1>1, <1>11, <1>12, <2>1 DEF Beside
  <2> HIDE DEF beside
  <2>3. PICK a \in E : /\ Highest(es, ranks, e, a) /\ Place(order, a) < Place(order, e)
                       /\ \A g \in E : ranks[g] # 0 /\ Place(order, g) < Place(order, e) => Place(order, g) <= Place(order, a)
    <3>1. e \in AtRanked(es, ranks)
      BY <1>3, <1>14, <2>1, <2>2 DEF AtRanked, None
    <3> QED BY <1>3, <1>4, <3>1 DEF KeepsRanks
  <2>4. a \in beside(e) /\ \A g \in beside(e) : was(g) <= was(a)
    <3>1. a \in beside(e)
      BY <2>2, <2>3 DEF Highest, None
    <3>2. \A g \in beside(e) : was(g) = ranks[g] /\ ranks[g] <= ranks[a]
      BY <1>3, <1>11, <1>12, <2>2, <2>3 DEF Highest
    <3> QED BY <3>1, <3>2
  <2>5. PICK anchor : anchor = CHOOSE f \in beside(e) : \A g \in beside(e) : was(g) <= was(f)
    OBVIOUS
  <2>6. anchor \in beside(e) /\ \A g \in beside(e) : was(g) <= was(anchor)
    BY <2>4, <2>5
  <2>7. anchor = a
    <3>1. anchor \in E /\ was(anchor) = ranks[anchor] /\ was(a) = ranks[a] /\ ranks[a] # None
      BY <1>11, <1>12, <2>2, <2>4, <2>6
    <3>2. ranks[anchor] \in Nat /\ ranks[a] \in Nat
      BY <1>7, <3>1
    <3>3. ranks[anchor] = ranks[a]
      BY <2>4, <2>6, <3>1, <3>2
    <3> QED BY <1>7, <3>1, <3>3
  <2>8. rank(new, anchor) < rank(new, e) /\ \A g \in kept : rank(new, g) < rank(new, e) => rank(new, g) <= rank(new, anchor)
    <3>1. rank(new, anchor) < rank(new, e)
      BY <1>8, <2>3, <2>7
    <3>2. ASSUME NEW g \in kept, rank(new, g) < rank(new, e) PROVE rank(new, g) <= rank(new, anchor)
      <4>1. g \in E /\ ranks[g] # 0
        BY <1>11, <1>12 DEF None
      <4>2. Place(order, g) < Place(order, e)
        BY <1>8, <3>2
      <4> QED BY <1>8, <2>3, <2>7, <4>1, <4>2
    <3> QED BY <3>1, <3>2
  <2> QED BY <2>5, <2>8, Zenon
<1>15. Range(new.order) = edges(new) /\ Len(new.order) = Cardinality(edges(new))
  BY DEF Lists
<1> HIDE DEF beside
<1>16. /\ Range(new.order) = edges(new) /\ Len(new.order) = Cardinality(edges(new))
       /\ \A e, f \in kept : was(e) < was(f) => rank(new, e) < rank(new, f)
       /\ \A e \in edges(new) \ kept : beside(e) # {} =>
            LET anchor == CHOOSE f \in beside(e) : \A g \in beside(e) : was(g) <= was(f)
            IN  /\ rank(new, anchor) < rank(new, e)
                /\ \A g \in kept : rank(new, g) < rank(new, e) => rank(new, g) <= rank(new, anchor)
  BY <1>13, <1>14, <1>15
<1> QED BY <1>16, Zenon DEF CarriedOver, former, kept, was, beside, rank

-----------------------------------------------------------------------------
(* A dataset, imported or updated.                                         *)

\* Its order lists every edge of its topology once, and the next update can
\* start from its snapshot.
IsDataset(d) ==
  /\ IsTopology(d.topology) /\ NodesDiffer(d.topology) /\ LabelsComponents(d.topology) /\ IsSnapshot(d.snapshot)
  /\ Lists(d.order, DOMAIN d.topology.edges)

\* What a state is built into is a dataset in any order that lists its edges.
LEMMA BuiltDataset ==
  ASSUME NEW s, IsScanned(s), NEW topology, topology = BuildTopology(ScanOutput(s)),
         NEW order, Lists(order, DOMAIN topology.edges), NEW ordering
  PROVE  IsDataset(Built(s, topology, order, ordering))
<1>1. IsTopology(topology) /\ NodesDiffer(topology) /\ LabelsComponents(topology)
  BY BuiltIs
<1>2. PICK d : d = Built(s, topology, order, ordering)
  OBVIOUS
<1>3. PICK snap : snap = ToSnapshot(s, topology.nodes)
  OBVIOUS
<1>4. IsSnapshot(snap)
  BY <1>1, <1>3, SnapshotIs DEF IsScanned, IsTopology
<1>5. d.topology = topology /\ d.order = order /\ d.snapshot = snap
  BY <1>2, <1>3 DEF Built
<1> QED BY <1>1, <1>2, <1>4, <1>5 DEF IsDataset

\* An order from scratch.
LEMMA NestedDissectionLists ==
  ASSUME NEW topology, IsTopology(topology)
  PROVE  Lists(NestedDissectionOrder(topology), DOMAIN topology.edges)
<1>1. PICK E : E = DOMAIN topology.edges
  OBVIOUS
<1>2. PICK graph : graph = GraphOf(topology)
  OBVIOUS
<1>3. PICK order : order = Dissect(graph, E)
  OBVIOUS
<1>4. Lists(order, E)
  BY <1>1, <1>2, <1>3, GraphIs, DissectLists
<1> DEFINE all == {Dissect(g, DOMAIN topology.edges) : g \in {GraphOf(topology)}}
<1>5. NestedDissectionOrder(topology) = One(all)
  BY Zenon DEF NestedDissectionOrder
<1>6. all = {order}
  BY <1>1, <1>2, <1>3
<1>7. One({order}) \in {order}
  BY Zenon DEF One
<1> HIDE DEF all
<1> QED BY <1>1, <1>4, <1>5, <1>6, <1>7

\* The order of an import.
LEMMA Importing ==
  ASSUME NEW objects, AreObjects(objects), Import(objects)
  PROVE  IsDataset(data)
<1>1. PICK s : s = ScanPbf(objects)
  OBVIOUS
<1>2. IsScanned(s)
  BY <1>1, ScanIs
<1>3. PICK topology : topology = BuildTopology(ScanOutput(s))
  OBVIOUS
<1>4. PICK order : order = NestedDissectionOrder(topology)
  OBVIOUS
<1>5. data = Built(s, topology, order, OrderingOf(topology, order))
  BY <1>1, <1>3, <1>4 DEF Import
<1>6. Lists(order, DOMAIN topology.edges)
  BY <1>2, <1>3, <1>4, BuiltIs, NestedDissectionLists
<1> QED BY <1>2, <1>3, <1>5, <1>6, BuiltDataset

\* What is not ordered afresh keeps the ranks of the build before.
KeptBy(old, new) == new.ordering.patched > 0 => KeepsRanks(new.order, new.topology.edges, PreviousRanks(old, new.topology))

\* An update carries the order over, or orders afresh.
LEMMA Rebuilding ==
  ASSUME NEW s, IsScanned(s), IsDataset(data), NEW policy, Rebuild(s, policy)
  PROVE  IsDataset(data') /\ KeptBy(data, data')
<1>1. PICK topology : topology = BuildTopology(ScanOutput(s))
  OBVIOUS
<1>2. IsTopology(topology) /\ NodesDiffer(topology)
  BY <1>1, BuiltIs
<1>3. PICK ranks : ranks = PreviousRanks(data, topology)
  OBVIOUS
<1>4. IsRanking(ranks, Len(topology.edges))
  BY <1>2, <1>3, RanksAre DEF IsDataset
<1>5. PICK patched : patched = PatchEdgeOrder(topology, ranks)
  OBVIOUS
<1>6. Lists(patched, DOMAIN topology.edges) /\ KeepsRanks(patched, topology.edges, ranks)
  BY <1>2, <1>4, <1>5, PatchLists
<1>7. PICK fresh : fresh = NestedDissectionOrder(topology)
  OBVIOUS
<1>8. Lists(fresh, DOMAIN topology.edges)
  BY <1>2, <1>7, NestedDissectionLists
<1>9. \/ data' = Built(s, topology, fresh, OrderingOf(topology, fresh))
      \/ data' = Built(s, topology, patched, [data.ordering EXCEPT !.patched = @ + 1])
  BY <1>1, <1>3, <1>5, <1>7 DEF Rebuild
<1>10. IsDataset(data')
  BY <1>1, <1>6, <1>8, <1>9, BuiltDataset
<1>11. \/ data'.ordering.patched = 0
       \/ data'.order = patched /\ data'.topology = topology
  BY <1>9 DEF Built, OrderingOf
<1>12. KeptBy(data, data')
  BY <1>3, <1>6, <1>11 DEF KeptBy
<1> QED BY <1>10, <1>12

\* The files are applied to what the snapshot restores.
LEMMA ChangesUpdate ==
  ASSUME IsDataset(data), NEW files \in ChangeFiles, NEW policy, UpdateFromChanges(files, policy)
  PROVE  IsDataset(data') /\ KeptBy(data, data')
<1>1. PICK s \in FromSnapshot(data.snapshot, data.topology.places) :
        \E changed \in {FoldLeft(LAMBDA c, file : ApplyChanges(c, EffectiveChanges(file)), s, files)} : Rebuild(changed, policy)
  BY Zenon DEF UpdateFromChanges
<1>2. PICK places : places = data.topology.places
  OBVIOUS
<1>3. IsScanned(s)
  BY <1>1, <1>2, RestoredIsSettled DEF IsDataset, IsTopology
<1>4. PICK changed : changed = FoldLeft(FileApplied, s, files)
  OBVIOUS
<1>5. changed = FoldLeft(LAMBDA c, file : ApplyChanges(c, EffectiveChanges(file)), s, files)
  BY <1>4, Zenon DEF FileApplied, FoldLeft, MapThenFoldSet
<1>6. Rebuild(changed, policy)
  BY <1>1, <1>5
<1>7. IsScanned(changed)
  BY <1>3, <1>4, UpdateAssumption, FilesAre
<1> QED BY <1>6, <1>7, Rebuilding

\* A newer extract is scanned from the start.
LEMMA SourceUpdates ==
  ASSUME IsDataset(data), NEW objects \in Extracts, NEW policy, UpdateFromSource(objects, policy)
  PROVE  IsDataset(data') /\ KeptBy(data, data')
<1>1. PICK s : s = ScanPbf(objects)
  OBVIOUS
<1>2. IsScanned(s)
  BY <1>1, UpdateAssumption, ScanIs
<1>3. Rebuild(s, policy)
  BY <1>1 DEF UpdateFromSource
<1> QED BY <1>2, <1>3, Rebuilding

-----------------------------------------------------------------------------
(* Datasets under updates, and the hierarchy that serves the last of them. *)

\* What a contraction starts from.
Fresh == cost = << >> /\ contracted = 0 /\ arcs = {} /\ task = << >> /\ weight = << >> /\ relaxed = {} /\ queue = {} /\ queued = {}

\* Before a dataset is served, its hierarchy does not exist; from then on the
\* hierarchy is what it is on any network.
UInv ==
  \/ phase = "dataset" /\ IsDataset(data) /\ Fresh
  \/ phase # "dataset" /\ IInv

\* The turns between the ranks of two states are those between the states.
LEMMA NetworkIs ==
  ASSUME NEW topology, NEW order, Lists(order, DOMAIN topology.edges), Len(order) = N
  PROVE  IsNetwork(NetworkOf(topology, order))
<1> DEFINE rank(e) == CHOOSE n \in DOMAIN order : order[n] = e
           ranked(ts) == {<<rank(t[1]), rank(t[2])>> : t \in ts}
           edges == topology.edges
           steps == {t \in TransitionsOf(edges) : t[1] # t[2]}
           back  == ranked({t \in steps : edges[t[1]].from = edges[t[2]].to})
           paths == {r.path : r \in {r \in Range(topology.restrictions) : Len(r.path) = 2 /\ "car" \in r.modes /\ r.always}}
<1>1. PICK net1 : net1 = NetworkOf(topology, order)
  OBVIOUS
<1>2. net1 = [steps |-> ranked(steps), turn |-> [a \in ranked(steps) |-> IF a \in back THEN 3 ELSE 0],
              forbidden |-> ranked(steps \cap paths)]
  BY <1>1, Zenon DEF NetworkOf
<1>3. ASSUME NEW t \in steps PROVE <<rank(t[1]), rank(t[2])>> \in {a \in Pairs : a[1] # a[2]}
  <2>1. t[1] \in DOMAIN edges /\ t[2] \in DOMAIN edges /\ t[1] # t[2]
    BY DEF TransitionsOf
  <2>2. PICK x : x = rank(t[1])
    OBVIOUS
  <2>3. PICK y : y = rank(t[2])
    OBVIOUS
  <2>4. x \in 1..N /\ y \in 1..N /\ order[x] = t[1] /\ order[y] = t[2]
    BY <2>1, <2>2, <2>3, PlaceIs DEF Place
  <2> HIDE DEF rank
  <2> QED BY <2>1, <2>2, <2>3, <2>4 DEF Pairs, States
<1> HIDE DEF steps, back, paths, rank
<1>4. ranked(steps) \subseteq {a \in Pairs : a[1] # a[2]} /\ ranked(steps \cap paths) \subseteq ranked(steps)
  BY <1>3
<1>5. PICK all : all = ranked(steps)
  OBVIOUS
<1>6. [a \in all |-> IF a \in back THEN 3 ELSE 0] \in [all -> Nat]
  OBVIOUS
<1>7. net1.steps = all /\ net1.turn = [a \in all |-> IF a \in back THEN 3 ELSE 0] /\ net1.forbidden = ranked(steps \cap paths)
  BY <1>2, <1>5
<1> HIDE DEF ranked
<1> QED BY <1>1, <1>4, <1>5, <1>6, <1>7 DEF IsNetwork

\* Contraction starts on any network.
Opening == IsNetwork(net) /\ phase = "contract" /\ pending = net.steps /\ Fresh

\* The invariant holds when contraction starts.
LEMMA StartHolds == Opening => IInv
<1> SUFFICES ASSUME Opening PROVE IInv
  OBVIOUS
<1> QED BY ContractionStarts DEF Opening, Fresh

\* It holds of a hierarchy to begin with and of an imported dataset.
LEMMA UpdateInitHolds == ASSUME UpdateInit PROVE UInv
<1>1. CASE Init
  BY <1>1, InitHolds DEF UInv, Init
<1>2. CASE ~Init
  <2>1. PICK objects \in Extracts : Import(objects)
    BY <1>2 DEF UpdateInit
  <2>2. IsDataset(data)
    BY <2>1, UpdateAssumption, Importing
  <2> QED BY <1>2, <2>2 DEF UpdateInit, UInv, Fresh
<1> QED BY <1>1, <1>2

\* A dataset is served by contracting its network in its order.
LEMMA ServeStarts == ASSUME phase = "dataset", IsDataset(data), Fresh, Serve PROVE Opening'
<1>1. IsNetwork(NetworkOf(data.topology, data.order))
  BY NetworkIs DEF Serve, IsDataset
<1>2. IsNetwork(net')
  BY <1>1 DEF Serve
<1>3. Fresh'
  BY DEF Serve, Fresh
<1> QED BY <1>2, <1>3 DEF Serve, Opening, IsNetwork

\* Every update, and every step of the hierarchy, keeps it.
LEMMA UpdatesHold ==
  ASSUME UInv, [UpdateNext]_<<vars, dataset>>, Opening' => IInv'
  PROVE  UInv'
<1>1. CASE phase = "dataset"
  <2>1. IsDataset(data) /\ Fresh
    BY <1>1 DEF UInv, IInv
  <2>2. CASE Next
    BY <1>1, <2>2 DEF Next, Contract, CustomizeBase, RelaxMiddle, FinishCustomization, Avoid, Recompute, FinishRecustomization
  <2>3. ASSUME NEW files \in ChangeFiles, NEW policy, UpdateFromChanges(files, policy) PROVE UInv'
    <3>1. IsDataset(data')
      BY <2>1, <2>3, ChangesUpdate
    <3> QED BY <1>1, <2>1, <2>3, <3>1 DEF UpdateFromChanges, vars, UInv, Fresh
  <2>4. ASSUME NEW objects \in Extracts, NEW policy, UpdateFromSource(objects, policy) PROVE UInv'
    <3>1. IsDataset(data')
      BY <2>1, <2>4, SourceUpdates
    <3> QED BY <1>1, <2>1, <2>4, <3>1 DEF UpdateFromSource, vars, UInv, Fresh
  <2>5. CASE Serve
    <3>1. IInv'
      BY <1>1, <2>1, <2>5, ServeStarts
    <3> QED BY <2>5, <3>1 DEF Serve, UInv
  <2>6. CASE UNCHANGED <<vars, dataset>>
    BY <1>1, <2>1, <2>6 DEF UInv, Fresh, vars, dataset
  <2> QED BY <2>2, <2>3, <2>4, <2>5, <2>6 DEF UpdateNext
<1>2. CASE phase # "dataset"
  <2>1. IInv /\ [Next]_vars
    BY <1>2 DEF UInv, UpdateNext, UpdateFromChanges, UpdateFromSource, Serve, vars
  <2>2. IInv'
    BY <2>1, NextHolds
  <2>3. phase' # "dataset"
    BY <2>2 DEF IInv, TypeOK, Phases
  <2> QED BY <2>2, <2>3 DEF UInv
<1> QED BY <1>1, <1>2

\* After any imports and updates a dataset's order lists every edge once and
\* its snapshot can be restored, and whichever dataset is served, the
\* hierarchy keeps its invariant.
THEOREM UpdatesKeepInvariant == UpdateSpec => []UInv
<1>1. (Opening => IInv)'
  BY StartHolds, PTL
<1>2. UInv /\ [UpdateNext]_<<vars, dataset>> => UInv'
  BY <1>1, UpdatesHold
<1> QED BY UpdateInitHolds, <1>2, PTL DEF UpdateSpec

\* HierarchyIsExact, whatever dataset is served after whatever updates.
THEOREM DatasetsServedExactly == UpdateSpec => []HierarchyIsExact
<1>1. UInv => HierarchyIsExact
  <2>1. CASE phase = "dataset"
    BY <2>1 DEF HierarchyIsExact, WeightsAreShortest, QueriesAreExact, Served
  <2>2. CASE phase # "dataset"
    BY <2>2, WeightsHold, QueriesHold DEF UInv, HierarchyIsExact
  <2> QED BY <2>1, <2>2
<1> QED BY <1>1, UpdatesKeepInvariant, PTL

\* SidesAreFinal, whatever dataset is served after whatever updates.
THEOREM DatasetsSettleSides == UpdateSpec => SidesAreFinal
<1>1. UInv /\ [UpdateNext]_<<vars, dataset>> => [FinalSides]_weight
  <2>1. SUFFICES ASSUME UInv, [UpdateNext]_<<vars, dataset>> PROVE FinalSides \/ weight' = weight
    OBVIOUS
  <2>2. CASE phase = "dataset"
    BY <2>2 DEF FinalSides
  <2>3. CASE phase # "dataset"
    <3>1. IInv /\ [Next]_vars
      BY <2>1, <2>3 DEF UInv, UpdateNext, UpdateFromChanges, UpdateFromSource, Serve, vars
    <3> QED BY <3>1, SidesStay
  <2> QED BY <2>2, <2>3
<1>2. UpdateSpec => [][FinalSides]_weight
  BY <1>1, UpdatesKeepInvariant, PTL DEF UpdateSpec
<1> QED BY <1>2 DEF SidesAreFinal, FinalSides

\* SidesAreApart: the dissection of a dataset's edges orders every cell and
\* splits it into sides that no transition joins, balanced where it says so.
LEMMA CellsFallApart == ASSUME IsDataset(data) PROVE SidesAreApart
<1>1. PICK graph : graph = GraphOf(data.topology)
  OBVIOUS
<1>2. IsGraph(graph, Edges)
  BY <1>1, GraphIs DEF IsDataset, Edges
<1>3. LeafStates \in Nat \ {0}
  BY DissectionAssumption
<1>4. ASSUME NEW cell \in SUBSET Edges
      PROVE  /\ \E order \in {Dissect(graph, cell)} : Range(order) = cell /\ Len(order) = Cardinality(cell)
             /\ Cardinality(cell) > LeafStates =>
                  \E s \in {SplitOf(graph, cell)} :
                    /\ s.a \cup s.b \cup s.separator = cell
                    /\ Cardinality(s.a) + Cardinality(s.b) + Cardinality(s.separator) = Cardinality(cell)
                    /\ graph.linked \cap (s.a \X s.b) = {}
                    /\ \/ InertialFlowSplit(graph, cell) = {}
                       \/ \A side \in {s.a, s.b} : Cardinality(side) >= Cardinality(cell) \div 4
  <2>1. IsFiniteSet(cell) /\ Cardinality(cell) \in Nat
    BY <1>2, CellIs
  <2>2. PICK order : order = Dissect(graph, cell)
    OBVIOUS
  <2>3. Range(order) = cell /\ Len(order) = Cardinality(cell)
    <3>1. Lists(order, cell)
      BY <1>2, <2>2, DissectLists
    <3> QED BY <3>1 DEF Lists
  <2>4. PICK s : s = SplitOf(graph, cell)
    OBVIOUS
  <2>5. ASSUME Cardinality(cell) > LeafStates
        PROVE  /\ s.a \cup s.b \cup s.separator = cell
               /\ Cardinality(s.a) + Cardinality(s.b) + Cardinality(s.separator) = Cardinality(cell)
               /\ graph.linked \cap (s.a \X s.b) = {}
               /\ \/ InertialFlowSplit(graph, cell) = {}
                  \/ \A side \in {s.a, s.b} : Cardinality(side) >= Cardinality(cell) \div 4
    <3>1. Cardinality(cell) > 1
      BY <1>3, <2>1, <2>5
    <3>2. Splits(graph, cell, s) /\ (InertialFlowSplit(graph, cell) = {} \/ s \in Quartered(graph, cell))
      BY <1>2, <2>4, <3>1, CellSplits
    <3>3. /\ s.a \cup s.b \cup s.separator = cell
          /\ s.a \cap s.b = {} /\ s.a \cap s.separator = {} /\ s.b \cap s.separator = {}
          /\ graph.linked \cap (s.a \X s.b) = {}
      BY <3>2 DEF Splits
    <3>4. PICK a : a = s.a
      OBVIOUS
    <3>5. PICK b : b = s.b
      OBVIOUS
    <3>6. PICK c : c = s.separator
      OBVIOUS
    <3>7. (a \cup b) \cup c = cell /\ a \cap b = {} /\ (a \cup b) \cap c = {}
      BY <3>3, <3>4, <3>5, <3>6
    <3>8. IsFiniteSet(a) /\ IsFiniteSet(b) /\ IsFiniteSet(c) /\ IsFiniteSet(a \cup b)
      BY <2>1, <3>7, FS_Subset
    <3>9. Cardinality(a) \in Nat /\ Cardinality(b) \in Nat /\ Cardinality(c) \in Nat /\ Cardinality({}) = 0
      BY <3>8, FS_CardinalityType, FS_EmptySet
    <3>10. PICK ab : ab = a \cup b
      OBVIOUS
    <3>11. Cardinality(ab) = Cardinality(a) + Cardinality(b)
      BY <3>7, <3>8, <3>9, <3>10, DisjointUnion
    <3>12. Cardinality(cell) = Cardinality(ab) + Cardinality(c)
      BY <3>7, <3>8, <3>9, <3>10, DisjointUnion
    <3>13. Cardinality(s.a) + Cardinality(s.b) + Cardinality(s.separator) = Cardinality(cell)
      BY <3>4, <3>5, <3>6, <3>9, <3>11, <3>12
    <3>14. InertialFlowSplit(graph, cell) = {} \/ \A side \in {s.a, s.b} : Cardinality(side) >= Cardinality(cell) \div 4
      BY <3>2 DEF Quartered
    <3> QED BY <3>3, <3>13, <3>14
  <2> QED BY <2>2, <2>3, <2>4, <2>5
<1>5. \E g \in {GraphOf(data.topology)} : g = graph
  BY <1>1
<1> QED BY <1>4, <1>5 DEF SidesAreApart

\* ComponentsHold: the components of a topology are what its edges join.
LEMMA LabelsTellComponents ==
  ASSUME IsTopology(data.topology), LabelsComponents(data.topology)
  PROVE  ComponentsHold
<1>1. PICK edges : edges = data.topology.edges
  OBVIOUS
<1>2. PICK label : label = data.topology.components
  OBVIOUS
<1>3. PICK n \in Nat : n = Len(data.topology.nodes)
  BY DEF IsTopology
<1>4. DOMAIN label = 1..n /\ Edges = 1..Len(edges) /\ \A e \in 1..Len(edges) : EdgeAt(e) = edges[e] /\ edges[e].from \in 1..n /\ edges[e].to \in 1..n
  <2>1. DOMAIN edges = 1..Len(edges)
    BY <1>1, IsListMeans DEF IsTopology
  <2>2. label = [x \in 1..n |-> label[x]]
    BY <1>2, <1>3 DEF LabelsComponents, AreLabels, LabelsOf
  <2>3. DOMAIN label = 1..n
    BY <2>2
  <2> QED BY <1>1, <1>3, <2>1, <2>3 DEF Edges, EdgeAt, IsTopology
<1>5. PICK l, root : LabelsOf(label, n, l, root) /\ Joins(edges, Len(edges), n, root)
  <2>1. AreLabels(label, n, edges)
    BY <1>1, <1>2, <1>3 DEF LabelsComponents
  <2> QED BY <2>1, Zenon DEF AreLabels
<1>6. \A x, y \in 1..n : label[x] = label[y] <=> root[x] = root[y]
  BY <1>5, LabelsFollow
<1>7. ASSUME NEW e \in 1..Len(edges) PROVE Cardinality({label[x] : x \in {edges[e].from, edges[e].to}}) = 1
  <2>1. label[edges[e].from] = label[edges[e].to]
    BY <1>4, <1>5, <1>6 DEF Joins
  <2>2. {label[x] : x \in {edges[e].from, edges[e].to}} = {label[edges[e].from]}
    BY <2>1
  <2> QED BY <2>2, FS_Singleton
<1>8. ASSUME NEW k \in Range(label), NEW part \in SUBSET {x \in 1..n : label[x] = k}, part # {}, part # {x \in 1..n : label[x] = k}
      PROVE  \E e \in 1..Len(edges) : {edges[e].from, edges[e].to} \cap part # {} /\ {edges[e].from, edges[e].to} \ part # {}
  <2>1. PICK x \in part : TRUE
    BY <1>8
  <2>2. PICK y \in 1..n : label[y] = k /\ y \notin part
    BY <1>8
  <2>3. x \in 1..n /\ root[x] \in 1..n /\ root[y] = root[x] /\ \A z \in part : root[z] = root[x]
    BY <1>5, <1>6, <2>1, <2>2 DEF LabelsOf
  <2>4. part \in SUBSET (1..n)
    OBVIOUS
  <2>5. Crossed(edges, Len(edges), part)
    BY <1>5, <2>1, <2>2, <2>3, <2>4 DEF Joins
  <2> QED BY <2>5 DEF Crossed
<1>9. ASSUME NEW x \in 1..n PROVE label[x] \in 1 .. 1 + Max({label[m] : m \in 1 .. x - 1} \cup {0})
  <2>1. PICK S : S = {label[m] : m \in 1 .. x - 1} \cup {0}
    OBVIOUS
  <2>2. PICK k \in Nat : k = Len(l)
    BY <1>5, IsListMeans DEF LabelsOf, Labels
  <2>3. \A m \in 1..n : label[m] \in 1..k
    BY <1>5, <2>2 DEF LabelsOf
  <2>4. S \in SUBSET (0..k) /\ 0 \in S
    BY <2>1, <2>3
  <2>5. \A y \in S : y <= Max(S)
    BY <2>4, MaxIsOneOf
  <2>6. Max(S) \in S
    BY <2>4, MaxIsOneOf
  <2>7. PICK highest \in 0..k : highest = Max(S)
    BY <2>4, <2>6
  <2>8. label[x] \in 1..k
    BY <2>3
  <2>9. label[x] = 1 \/ \E h \in 1..(x - 1) : label[h] = label[x] - 1
    BY <1>5, LabelsFollow
  <2>10. label[x] = 1 \/ label[x] - 1 \in S
    BY <2>1, <2>9
  <2>11. label[x] \in 1 .. 1 + highest
    BY <2>5, <2>7, <2>8, <2>10
  <2> QED BY <2>1, <2>7, <2>11
<1>10. \A e \in Edges : Cardinality({label[x] : x \in {EdgeAt(e).from, EdgeAt(e).to}}) = 1
  BY <1>4, <1>7
<1>11. \A k \in Range(label) : \A part \in (SUBSET {x \in DOMAIN label : label[x] = k}) \ {{}, {x \in DOMAIN label : label[x] = k}} :
         \E e \in Edges : {EdgeAt(e).from, EdgeAt(e).to} \cap part # {} /\ {EdgeAt(e).from, EdgeAt(e).to} \ part # {}
  <2>1. SUFFICES ASSUME NEW k \in Range(label),
                        NEW part \in (SUBSET {x \in DOMAIN label : label[x] = k}) \ {{}, {x \in DOMAIN label : label[x] = k}}
                 PROVE  \E e \in Edges : {EdgeAt(e).from, EdgeAt(e).to} \cap part # {} /\ {EdgeAt(e).from, EdgeAt(e).to} \ part # {}
    OBVIOUS
  <2>2. DOMAIN label = 1..n
    BY <1>4
  <2>3. \E e \in 1..Len(edges) : {edges[e].from, edges[e].to} \cap part # {} /\ {edges[e].from, edges[e].to} \ part # {}
    BY <1>8, <2>1, <2>2
  <2> QED BY <1>4, <2>3
<1>12. \A x \in DOMAIN label : label[x] \in 1 .. 1 + Max({label[m] : m \in 1 .. x - 1} \cup {0})
  BY <1>4, <1>9
<1>13. \A e \in Edges : Cardinality({data.topology.components[x] : x \in {EdgeAt(e).from, EdgeAt(e).to}}) = 1
  BY <1>2, <1>10, Zenon
<1>14. \A k \in Range(data.topology.components) :
         \A part \in (SUBSET {x \in DOMAIN data.topology.components : data.topology.components[x] = k})
                        \ {{}, {x \in DOMAIN data.topology.components : data.topology.components[x] = k}} :
           \E e \in Edges : {EdgeAt(e).from, EdgeAt(e).to} \cap part # {} /\ {EdgeAt(e).from, EdgeAt(e).to} \ part # {}
  BY <1>2, <1>11, Zenon
<1>15. \A x \in DOMAIN data.topology.components :
         data.topology.components[x] \in 1 .. 1 + Max({data.topology.components[m] : m \in 1 .. x - 1} \cup {0})
  BY <1>2, <1>12, Zenon
<1> QED BY ONLY <1>13, <1>14, <1>15, Zenon DEF ComponentsHold

\* Of every dataset, after any updates, every cell of its edges falls apart
\* as SidesAreApart says, and its order ranks each edge once.
THEOREM DatasetsAreOrdered ==
  UpdateSpec => [](HasDataset => SidesAreApart /\ Range(data.order) = Edges /\ Len(data.order) = Cardinality(Edges))
<1>1. UInv => (HasDataset => SidesAreApart /\ Range(data.order) = Edges /\ Len(data.order) = Cardinality(Edges))
  <2>1. SUFFICES ASSUME UInv, phase = "dataset" PROVE SidesAreApart /\ Range(data.order) = Edges /\ Len(data.order) = Cardinality(Edges)
    BY DEF HasDataset
  <2>2. IsDataset(data)
    BY <2>1 DEF UInv
  <2> QED BY <2>2, CellsFallApart DEF IsDataset, Lists, Edges
<1> QED BY <1>1, UpdatesKeepInvariant, PTL

\* ComponentsHold, of every dataset after any updates: two nodes have one
\* component where the edges join them and only there, and the components are
\* numbered in the order of their first nodes (label_weak_components).
THEOREM DatasetsKnowComponents == UpdateSpec => [](HasDataset => ComponentsHold)
<1>1. UInv => (HasDataset => ComponentsHold)
  <2>1. SUFFICES ASSUME UInv, phase = "dataset" PROVE ComponentsHold
    BY DEF HasDataset
  <2>2. IsDataset(data)
    BY <2>1 DEF UInv
  <2> QED BY <2>2, LabelsTellComponents DEF IsDataset
<1> QED BY <1>1, UpdatesKeepInvariant, PTL

\* OrderIsKept, whatever the updates; and an order that is carried over keeps
\* the ranks that the edges of the build before claim, however many of them
\* are parallel (update.rs, previous_ranks).
THEOREM DatasetsKeepOrder ==
  UpdateSpec => /\ OrderIsKept
                /\ [][HasDataset /\ HasDataset' /\ data'.ordering.patched > 0 =>
                        KeepsRanks(data'.order, data'.topology.edges, PreviousRanks(data, data'.topology))]_data
<1>1. UInv /\ UInv' /\ [UpdateNext]_<<vars, dataset>> =>
        /\ [HasDataset /\ HasDataset' /\ data'.ordering.patched > 0 /\ TellsApart(data.topology, data'.topology) =>
              CarriedOver(data, data')]_data
        /\ [HasDataset /\ HasDataset' /\ data'.ordering.patched > 0 =>
              KeepsRanks(data'.order, data'.topology.edges, PreviousRanks(data, data'.topology))]_data
  <2>1. SUFFICES ASSUME UInv, UInv', [UpdateNext]_<<vars, dataset>>, phase = "dataset", phase' = "dataset",
                        data'.ordering.patched > 0, data' # data
                 PROVE  /\ KeepsRanks(data'.order, data'.topology.edges, PreviousRanks(data, data'.topology))
                        /\ TellsApart(data.topology, data'.topology) => CarriedOver(data, data')
    BY DEF HasDataset
  <2>2. IsDataset(data) /\ IsDataset(data')
    BY <2>1 DEF UInv
  <2>3. \/ \E files \in ChangeFiles, policy \in Policies : UpdateFromChanges(files, policy)
        \/ \E objects \in Extracts, policy \in Policies : UpdateFromSource(objects, policy)
    BY <2>1 DEF UpdateNext, Serve, dataset
  <2>4. KeptBy(data, data')
    BY <2>2, <2>3, ChangesUpdate, SourceUpdates
  <2>5. PICK old, new : old = data /\ new = data'
    OBVIOUS
  <2>6. KeepsRanks(new.order, new.topology.edges, PreviousRanks(old, new.topology))
    BY <2>1, <2>4, <2>5 DEF KeptBy
  <2>7. IsDataset(old) /\ IsDataset(new)
    BY <2>2, <2>5
  <2>8. TellsApart(old.topology, new.topology) => CarriedOver(old, new)
    BY <2>6, <2>7, RanksCarryOver DEF IsDataset
  <2> QED BY <2>5, <2>6, <2>8
<1> QED BY <1>1, UpdatesKeepInvariant, PTL DEF UpdateSpec, OrderIsKept
=============================================================================
