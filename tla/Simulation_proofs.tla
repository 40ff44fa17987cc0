-------------------------- MODULE Simulation_proofs ---------------------------
(***************************************************************************)
(* Proofs about Simulation: the loads, the routes and the trajectories of  *)
(* agents, closures, and the account a run leaves, for every network,      *)
(* fleet, script of commands and length of the run.                        *)
(***************************************************************************)
EXTENDS Simulation, CollectionLemmas

-----------------------------------------------------------------------------
(* The inductive invariant.                                                *)

Statuses == {"unknown", "planned", "failed", "pending", "active", "arrived", "never"}
Over == {"publish", "record", "done"}   \* Where the summary has been made.
Unmoved == {"unknown", "planned", "failed"}

\* A record of engine.rs.
AgentRecord ==
  [status : Statuses, depart : Nat, route : Seq(Edges), pos : Nat, end : BOOLEAN,
   force : BOOLEAN, last : Int, traj : Seq(Edges)]
IsSeq(s) == s \in Seq(Range(s))

TypeOK ==
  /\ state \in {"Pending", "Dispatching", "Running", "Paused", "Completed", "Cancelled",
                "Failed"}
  /\ cancelled \in BOOLEAN /\ IsSeq(inbox)
  /\ listed \in BOOLEAN /\ IsSeq(script) /\ outcome \in {"none", "ok", "err"}
  /\ agent \in [Agents -> AgentRecord]
  /\ pending \subseteq Agents /\ retry \in Seq(Agents) /\ active \in Seq(Agents)
  /\ occupancy \in [Edges -> Int] /\ exits \in [Edges -> Int]
  /\ report \in [planned : Nat, failed : Nat, arrived : Nat]
  /\ at \in {"start", "dispatch", "drain", "apply", "spawn", "move", "reroute", "finish",
             "publish", "record", "done"}
  /\ tick \in Nat /\ nextDispatch \in Nat
  /\ IsSeq(todo) /\ (at \in {"spawn", "move", "reroute"} => Range(todo) \subseteq Agents)
  /\ candidates \in Seq(Agents)

\* What holds of an agent's record alone: how far it has come on its route, and
\* where the route may lead.
OnRoute(a, r) ==
  /\ r.pos <= Len(r.route) /\ r.traj = SubSeq(r.route, 1, r.pos)
  /\ Driveable(r.route)
  /\ r.route # <<>> => \E first \in Routes[a] : first # <<>> /\ Last(first) = Last(r.route)
  /\ r.status \in Unmoved => r.route = <<>>
  /\ r.status = "pending" => r.route # <<>> /\ r.pos = 0
  /\ r.status \in {"active", "arrived"} => r.pos >= 1
AllOnRoute == \A a \in Agents : OnRoute(a, agent[a])

\* Every agent that waits to depart is in one queue, once; the active agents
\* are the ones the moving loop has.
Having(status) == {a \in Agents : agent[a].status = status}
Distinct(s) == \A i, j \in 1..Len(s) : s[i] = s[j] => i = j
Line == IF at = "spawn" THEN todo ELSE <<>>
InQueues ==
  /\ Distinct(retry) /\ Distinct(Line)
  /\ pending \cap Range(retry) = {} /\ pending \cap Range(Line) = {}
  /\ Range(retry) \cap Range(Line) = {}
  /\ at \notin Over => Having("pending") = (pending \cup Range(retry)) \cup Range(Line)
Underway == Distinct(active) /\ Range(active) = Having("active")

\* A loop over agents finds them as they were when it began.
InLoops ==
  /\ at = "move" =>
       /\ Distinct(todo) /\ Range(todo) \subseteq Having("active")
       /\ Range(candidates) \subseteq Having("active")
       /\ Range(candidates) \cap Range(todo) = {}
  /\ at = "reroute" => Range(todo) \subseteq Having("active")

\* Commands that spawn a fleet, from the callers to the engine's hands: each
\* fleet once, and none of its agents is known yet.
Spawning(s) == {s[i].fleet : i \in {j \in 1..Len(s) : s[j].do = "spawn"}}
Once(s) == \A i, j \in 1..Len(s) :
  s[i].do = "spawn" /\ s[j].do = "spawn" /\ s[i].fleet = s[j].fleet => i = j
InHand == IF at = "apply" THEN todo ELSE <<>>
Announced == (Spawning(script) \cup Spawning(inbox)) \cup Spawning(InHand)
Fresh ==
  /\ Once(script) /\ Once(inbox) /\ Once(InHand)
  /\ Spawning(script) \cap Spawning(inbox) = {}
  /\ Spawning(script) \cap Spawning(InHand) = {}
  /\ Spawning(inbox) \cap Spawning(InHand) = {}
  /\ \A a \in Agents : Fleet[a] \in Announced => agent[a].status = "unknown"
  /\ Announced \cap Range(Fleets) = {}
  /\ at = "start" => \A a \in Agents : agent[a].status = "unknown"

\* The counters of the run count agents.
Known == {a \in Agents : agent[a].status # "unknown"}
Counted ==
  /\ report.planned = Cardinality(Known)
  /\ report.failed = Cardinality(Having("failed"))
  /\ report.arrived = Cardinality(Having("arrived"))

\* The end: nothing is published or stored before its turn.
Ending ==
  /\ at \notin {"record", "done"} => ~Finished /\ outcome = "none"
  /\ at \in {"record", "done"} =>
       state = "Failed" \/ state = IF summary.cancelled THEN "Cancelled" ELSE "Completed"
  /\ at = "record" => outcome = "none"
  /\ at = "done" => outcome = IF state = "Failed" THEN "err" ELSE "ok"
  /\ at \notin Over => summary = NoSummary

IInv ==
  /\ TypeOK /\ AllOnRoute /\ InQueues /\ Underway /\ InLoops /\ Fresh /\ Counted
  /\ OccupancyMatches /\ Ending /\ SummaryAddsUp

-----------------------------------------------------------------------------
(* Sequences without repetition.                                           *)

\* A sequence over a set is one over its elements, and the other way round.
LEMMA SeqOverRange ==
  ASSUME NEW S, NEW s
  PROVE  s \in Seq(S) <=> IsSeq(s) /\ Range(s) \subseteq S
<1>1. ASSUME s \in Seq(S) PROVE IsSeq(s) /\ Range(s) \subseteq S
  BY <1>1, OverItsRange DEF IsSeq
<1>2. ASSUME IsSeq(s), Range(s) \subseteq S PROVE s \in Seq(S)
  BY <1>2, SeqMonotonic DEF IsSeq
<1> QED BY <1>1, <1>2

\* The elements of a sequence, by position.
LEMMA ElementsOf ==
  ASSUME NEW s, IsSeq(s)
  PROVE  /\ Len(s) \in Nat /\ DOMAIN s = 1..Len(s)
         /\ \A x : x \in Range(s) <=> \E i \in 1..Len(s) : s[i] = x
  BY OverItsRange DEF IsSeq

LEMMA EmptySequence ==
  IsSeq(<<>>) /\ Range(<<>>) = {} /\ Distinct(<<>>) /\ Len(<<>>) = 0
<1>1. <<>> \in Seq({}) /\ Len(<<>>) = 0
  BY EmptySeq
<1>2. PICK s : s = <<>>
  OBVIOUS
<1>3. s \in Seq({})
  BY <1>1, <1>2
<1>4. IsSeq(s) /\ Range(s) \subseteq {}
  BY <1>3, SeqOverRange
<1> QED BY <1>1, <1>2, <1>4 DEF Distinct

\* Taking the first element.
LEMMA TakeFirst ==
  ASSUME NEW s, IsSeq(s), s # <<>>
  PROVE  /\ IsSeq(Tail(s)) /\ Head(s) \in Range(s)
         /\ Range(s) = Range(Tail(s)) \cup {Head(s)}
         /\ Len(s) \in Nat \ {0} /\ Len(Tail(s)) = Len(s) - 1
         /\ Head(s) = s[1] /\ \A j \in 1..(Len(s) - 1) : Tail(s)[j] = s[j + 1]
         /\ Distinct(s) => Distinct(Tail(s)) /\ Head(s) \notin Range(Tail(s))
<1> DEFINE t == Tail(s)
<1>1. /\ Len(s) \in Nat \ {0} /\ Head(s) = s[1]
      /\ \A x : x \in Range(s) <=> \E i \in 1..Len(s) : s[i] = x
  <2>1. Head(s) = s[1] /\ Len(s) # 0
    BY HeadTailProperties, EmptySeq DEF IsSeq
  <2> QED BY <2>1, ElementsOf
<1>2. /\ IsSeq(t) /\ Len(t) = Len(s) - 1
      /\ \A j \in 1..(Len(s) - 1) : t[j] = s[j + 1]
  BY <1>1, TailRange DEF IsSeq
<1>3. \A x : x \in Range(t) <=> \E i \in 1..Len(t) : t[i] = x
  BY <1>2, ElementsOf
<1> HIDE DEF t
<1>4. ASSUME NEW x PROVE x \in Range(s) <=> x \in Range(t) \cup {Head(s)}
  <2>1. ASSUME x \in Range(s) PROVE x \in Range(t) \cup {Head(s)}
    <3>1. PICK i \in 1..Len(s) : s[i] = x
      BY <1>1, <2>1
    <3>2. CASE i = 1
      BY <1>1, <3>1, <3>2
    <3>3. CASE i # 1
      <4>1. i - 1 \in 1..(Len(s) - 1) /\ i - 1 + 1 = i
        BY <1>1, <3>3
      <4>2. t[i - 1] = x
        BY <1>2, <3>1, <4>1
      <4> QED BY <1>2, <1>3, <4>1, <4>2
    <3> QED BY <3>2, <3>3
  <2>2. ASSUME x \in Range(t) PROVE x \in Range(s)
    <3>1. PICK j \in 1..Len(t) : t[j] = x
      BY <1>3, <2>2
    <3>2. j + 1 \in 1..Len(s) /\ s[j + 1] = x
      BY <1>1, <1>2, <3>1
    <3> QED BY <1>1, <3>2
  <2>3. Head(s) \in Range(s)
    <3>1. 1 \in 1..Len(s)
      BY <1>1
    <3> QED BY <1>1, <3>1
  <2> QED BY <2>1, <2>2, <2>3
<1>5. Range(s) = Range(t) \cup {Head(s)}
  BY <1>4
<1>6. ASSUME Distinct(s) PROVE Distinct(t) /\ Head(s) \notin Range(t)
  <2>1. ASSUME NEW i \in 1..Len(t), NEW j \in 1..Len(t), t[i] = t[j] PROVE i = j
    <3>1. i + 1 \in 1..Len(s) /\ j + 1 \in 1..Len(s) /\ s[i + 1] = s[j + 1]
      BY <1>1, <1>2, <2>1
    <3>2. i + 1 = j + 1
      BY <1>6, <3>1 DEF Distinct
    <3> QED BY <3>2
  <2>2. ASSUME NEW j \in 1..Len(t), t[j] = Head(s) PROVE FALSE
    <3>1. j + 1 \in 1..Len(s) /\ 1 \in 1..Len(s) /\ s[j + 1] = s[1]
      BY <1>1, <1>2, <2>2
    <3>2. j + 1 = 1
      BY <1>6, <3>1 DEF Distinct
    <3> QED BY <3>2
  <2> QED BY <1>3, <2>1, <2>2 DEF Distinct
<1> QED BY <1>1, <1>2, <1>5, <1>6 DEF t

\* Adding an element at the end.
LEMMA AddLast ==
  ASSUME NEW s, IsSeq(s), NEW e
  PROVE  /\ IsSeq(Append(s, e)) /\ Range(Append(s, e)) = Range(s) \cup {e}
         /\ Len(s) \in Nat /\ Len(Append(s, e)) = Len(s) + 1
         /\ Append(s, e)[Len(s) + 1] = e /\ \A j \in 1..Len(s) : Append(s, e)[j] = s[j]
         /\ Distinct(s) /\ e \notin Range(s) => Distinct(Append(s, e))
<1> DEFINE t == Append(s, e)
<1>1. /\ IsSeq(t) /\ Range(t) = Range(s) \cup {e} /\ Len(t) = Len(s) + 1
      /\ t[Len(s) + 1] = e /\ \A j \in 1..Len(s) : t[j] = s[j]
  BY AppendRange DEF IsSeq
<1>2. Len(s) \in Nat /\ \A x : x \in Range(s) <=> \E i \in 1..Len(s) : s[i] = x
  BY ElementsOf
<1> HIDE DEF t
<1>3. ASSUME Distinct(s), e \notin Range(s) PROVE Distinct(t)
  <2>1. SUFFICES ASSUME NEW i \in 1..Len(t), NEW j \in 1..Len(t), t[i] = t[j] PROVE i = j
    BY DEF Distinct
  <2>2. CASE i \in 1..Len(s) /\ j \in 1..Len(s)
    BY <1>1, <1>3, <2>1, <2>2 DEF Distinct
  <2>3. CASE i \notin 1..Len(s) /\ j \notin 1..Len(s)
    BY <1>1, <1>2, <2>3
  <2>4. CASE i \in 1..Len(s) /\ j \notin 1..Len(s)
    <3>1. j = Len(s) + 1
      BY <1>1, <1>2, <2>4
    <3> QED BY <1>1, <1>2, <1>3, <2>1, <2>4, <3>1
  <2>5. CASE i \notin 1..Len(s) /\ j \in 1..Len(s)
    <3>1. i = Len(s) + 1
      BY <1>1, <1>2, <2>5
    <3> QED BY <1>1, <1>2, <1>3, <2>1, <2>5, <3>1
  <2> QED BY <2>2, <2>3, <2>4, <2>5
<1> QED BY <1>1, <1>2, <1>3 DEF t

\* Taking an element out.
LEMMA TakeOut ==
  ASSUME NEW s, IsSeq(s), Distinct(s), NEW i \in 1..Len(s)
  PROVE  LET t == RemoveAt(s, i) IN
         /\ IsSeq(t) /\ Distinct(t) /\ Range(t) = Range(s) \ {s[i]}
<1> DEFINE t == RemoveAt(s, i)
<1>1. /\ IsSeq(t) /\ Len(t) = Len(s) - 1
      /\ \A j \in 1..(Len(s) - 1) : t[j] = IF j < i THEN s[j] ELSE s[j + 1]
      /\ Range(t) \subseteq Range(s)
      /\ \A x \in Range(s) : x = s[i] \/ x \in Range(t)
  BY RemoveAtRange DEF IsSeq
<1>2. Len(s) \in Nat
  BY ElementsOf
<1> HIDE DEF t
<1>3. \A x : x \in Range(t) <=> \E j \in 1..Len(t) : t[j] = x
  BY <1>1, ElementsOf
<1> DEFINE from(j) == IF j < i THEN j ELSE j + 1
<1>4. \A j \in 1..Len(t) : from(j) \in 1..Len(s) /\ from(j) # i /\ t[j] = s[from(j)]
  BY <1>1, <1>2
<1>5. \A j, k \in 1..Len(t) : from(j) = from(k) => j = k
  BY <1>1, <1>2
<1> HIDE DEF from
<1>6. Distinct(t)
  <2>1. SUFFICES ASSUME NEW j \in 1..Len(t), NEW k \in 1..Len(t), t[j] = t[k] PROVE j = k
    BY DEF Distinct
  <2>2. from(j) = from(k)
    BY <1>4, <2>1 DEF Distinct
  <2> QED BY <1>5, <2>2
<1>7. s[i] \notin Range(t)
  BY <1>3, <1>4 DEF Distinct
<1>8. Range(t) = Range(s) \ {s[i]}
  BY <1>1, <1>7
<1> QED BY <1>1, <1>6, <1>8 DEF t

\* One sequence after another.
LEMMA OneAfterOther ==
  ASSUME NEW s, NEW t, IsSeq(s), IsSeq(t)
  PROVE  /\ IsSeq(s \o t) /\ Range(s \o t) = Range(s) \cup Range(t)
         /\ Distinct(s) /\ Distinct(t) /\ Range(s) \cap Range(t) = {} => Distinct(s \o t)
<1> DEFINE u == s \o t
           S == Range(s) \cup Range(t)
<1>1. s \in Seq(S) /\ t \in Seq(S)
  BY SeqOverRange
<1>2. /\ u \in Seq(S) /\ Len(u) = Len(s) + Len(t)
      /\ \A j \in 1..(Len(s) + Len(t)) : u[j] = IF j <= Len(s) THEN s[j] ELSE t[j - Len(s)]
  BY <1>1, ConcatProperties
<1>3. /\ Len(s) \in Nat /\ \A x : x \in Range(s) <=> \E i \in 1..Len(s) : s[i] = x
      /\ Len(t) \in Nat /\ \A x : x \in Range(t) <=> \E i \in 1..Len(t) : t[i] = x
  BY ElementsOf
<1>4. IsSeq(u) /\ Range(u) \subseteq S
  BY <1>2, SeqOverRange
<1> HIDE DEF u, S
<1>5. \A x : x \in Range(u) <=> \E i \in 1..Len(u) : u[i] = x
  BY <1>4, ElementsOf
<1>6. ASSUME NEW j \in 1..Len(u)
      PROVE  \/ j \in 1..Len(s) /\ u[j] = s[j]
             \/ j \notin 1..Len(s) /\ j - Len(s) \in 1..Len(t) /\ u[j] = t[j - Len(s)]
  BY <1>2, <1>3
<1>7. ASSUME NEW j \in 1..Len(s) PROVE j \in 1..Len(u) /\ u[j] = s[j]
  BY <1>2, <1>3
<1>8. ASSUME NEW j \in 1..Len(t) PROVE Len(s) + j \in 1..Len(u) /\ u[Len(s) + j] = t[j]
  <2>1. /\ Len(s) + j \in 1..(Len(s) + Len(t)) /\ ~(Len(s) + j <= Len(s))
        /\ Len(s) + j - Len(s) = j
    BY <1>3
  <2> QED BY <1>2, <2>1
<1>9. S \subseteq Range(u)
  BY <1>3, <1>5, <1>7, <1>8 DEF S
<1>10. ASSUME Distinct(s), Distinct(t), Range(s) \cap Range(t) = {} PROVE Distinct(u)
  <2>1. SUFFICES ASSUME NEW i \in 1..Len(u), NEW j \in 1..Len(u), u[i] = u[j] PROVE i = j
    BY DEF Distinct
  <2>2. CASE i \in 1..Len(s) /\ j \in 1..Len(s)
    BY <1>6, <1>10, <2>1, <2>2 DEF Distinct
  <2>3. CASE i \notin 1..Len(s) /\ j \notin 1..Len(s)
    <3>1. i - Len(s) = j - Len(s)
      BY <1>6, <1>10, <2>1, <2>3 DEF Distinct
    <3> QED BY <1>3, <3>1
  <2>4. CASE i \in 1..Len(s) /\ j \notin 1..Len(s)
    <3>1. u[i] \in Range(s) /\ u[j] \in Range(t)
      BY <1>3, <1>6, <2>4
    <3> QED BY <1>10, <2>1, <3>1
  <2>5. CASE i \notin 1..Len(s) /\ j \in 1..Len(s)
    <3>1. u[j] \in Range(s) /\ u[i] \in Range(t)
      BY <1>3, <1>6, <2>5
    <3> QED BY <1>10, <2>1, <3>1
  <2> QED BY <2>2, <2>3, <2>4, <2>5
<1> QED BY <1>4, <1>9, <1>10 DEF u, S

\* A beginning of a sequence.
LEMMA Beginning ==
  ASSUME NEW S, NEW s \in Seq(S), NEW n \in 0..Len(s)
  PROVE  /\ SubSeq(s, 1, n) \in Seq(S) /\ Len(SubSeq(s, 1, n)) = n
         /\ \A i \in 1..n : SubSeq(s, 1, n)[i] = s[i]
         /\ Range(SubSeq(s, 1, n)) \subseteq Range(s)
<1> DEFINE t == SubSeq(s, 1, n)
<1>1. /\ Len(s) \in Nat /\ \A i \in 1..Len(s) : s[i] \in S
      /\ \A x : x \in Range(s) <=> \E i \in 1..Len(s) : s[i] = x
  BY OverItsRange, ElementOfSeq
<1>2. 1 \in Int /\ n \in Int /\ \A i \in 1..n : s[i] \in S
  BY <1>1
<1>3. /\ t \in Seq(S) /\ Len(t) = IF 1 <= n THEN n - 1 + 1 ELSE 0
      /\ \A i \in 1..(n - 1 + 1) : t[i] = s[1 + i - 1]
  BY <1>2, SubSeqProperties
<1> HIDE DEF t
<1>4. Len(t) = n
  BY <1>1, <1>3
<1>5. ASSUME NEW i \in 1..n PROVE t[i] = s[i]
  <2>1. i \in 1..(n - 1 + 1) /\ 1 + i - 1 = i
    BY <1>1
  <2> QED BY <1>3, <2>1
<1>6. \A x : x \in Range(t) <=> \E i \in 1..Len(t) : t[i] = x
  BY <1>3, OverItsRange
<1>7. Range(t) \subseteq Range(s)
  BY <1>1, <1>4, <1>5, <1>6
<1> QED BY <1>3, <1>4, <1>5, <1>7 DEF t

\* An order of a finite set has each of its elements once.
LEMMA OrderOfSet ==
  ASSUME NEW S, IsFiniteSet(S), NEW s \in SetToSeqs(S)
  PROVE  IsSeq(s) /\ Range(s) = S /\ Distinct(s)
<1> DEFINE n == Cardinality(S)
<1>1. n \in Nat /\ IsFiniteSet(1..n) /\ Cardinality(1..n) = n
  BY FS_CardinalityType, FS_Interval
<1>2. s \in [1..n -> S] /\ \A i, j \in 1..n : i # j => s[i] # s[j]
  BY DEF SetToSeqs
<1> HIDE DEF n
<1>3. s \in Seq(S) /\ Len(s) = n
  BY <1>1, <1>2, LenProperties
<1>4. s \in Injection(1..n, S)
  BY <1>2 DEF Injection, IsInjective
<1>5. s \in Surjection(1..n, S)
  BY <1>1, <1>4, FS_Injection DEF n
<1>6. \A x \in S : \E i \in 1..n : s[i] = x
  BY <1>5 DEF Surjection
<1>7. IsSeq(s) /\ Range(s) \subseteq S
  BY <1>3, SeqOverRange
<1>8. S \subseteq Range(s)
  BY <1>3, <1>6, <1>7, ElementsOf
<1> QED BY <1>2, <1>3, <1>7, <1>8 DEF Distinct

\* The length of a sequence without repetition counts its elements.
LEMMA LengthCounts ==
  ASSUME NEW s, IsSeq(s), Distinct(s)
  PROVE  IsFiniteSet(Range(s)) /\ Cardinality(Range(s)) = Len(s)
<1>1. /\ Len(s) \in Nat /\ DOMAIN s = 1..Len(s)
      /\ \A x : x \in Range(s) <=> \E i \in 1..Len(s) : s[i] = x
  BY ElementsOf
<1>2. s \in [1..Len(s) -> Range(s)]
  BY LenProperties DEF IsSeq
<1>3. s \in Injection(1..Len(s), Range(s))
  BY <1>2 DEF Injection, IsInjective, Distinct
<1>4. s \in Surjection(1..Len(s), Range(s))
  BY <1>1, <1>2 DEF Surjection
<1>5. ExistsBijection(1..Len(s), Range(s))
  BY <1>3, <1>4 DEF ExistsBijection, Bijection
<1>6. IsFiniteSet(1..Len(s)) /\ Cardinality(1..Len(s)) = Len(s)
  <2>1. PICK n \in Nat : n = Len(s)
    BY <1>1
  <2>2. IsFiniteSet(1..n) /\ Cardinality(1..n) = n
    BY FS_Interval
  <2> QED BY <2>1, <2>2
<1> QED BY <1>5, <1>6, FS_Bijection

-----------------------------------------------------------------------------
(* The load of a set of agents.                                            *)

LEMMA UnitsAreFinite ==
  ASSUME NEW S \in SUBSET Agents
  PROVE  IsFiniteSet(Units(S)) /\ Load(S) \in Nat
<1> DEFINE T == {{a} \X (1..Pcu[a]) : a \in S}
<1>1. IsFiniteSet(S)
  BY SizeAssumption, FS_Subset
<1>2. IsFiniteSet(T)
  <2> DEFINE f == [a \in S |-> {a} \X (1..Pcu[a])]
  <2>1. f \in Surjection(S, T)
    BY DEF Surjection
  <2> HIDE DEF f
  <2> QED BY <1>1, <2>1, FS_Surjection
<1>3. ASSUME NEW U \in T PROVE IsFiniteSet(U)
  <2>1. PICK a \in S : U = {a} \X (1..Pcu[a])
    OBVIOUS
  <2>2. PICK n \in Nat : n = Pcu[a]
    BY SizeAssumption
  <2>3. IsFiniteSet({a}) /\ IsFiniteSet(1..n)
    <3>1. IsFiniteSet(1..n)
      BY FS_Interval
    <3> QED BY <3>1, FS_Singleton
  <2>4. IsFiniteSet({a} \X (1..n))
    BY <2>3, FS_Product
  <2> QED BY <2>1, <2>2, <2>4
<1>4. IsFiniteSet(UNION T)
  BY <1>2, <1>3, FS_UNION
<1>5. IsFiniteSet(Units(S))
  BY <1>4 DEF Units
<1> QED BY <1>5, FS_CardinalityType DEF Load

LEMMA NoLoad ==
  Load({}) = 0
<1>1. Units({}) = {}
  BY DEF Units
<1> QED BY <1>1, FS_EmptySet DEF Load

\* One agent more.
LEMMA LoadAdded ==
  ASSUME NEW S \in SUBSET Agents, NEW a \in Agents, a \notin S
  PROVE  Load(S \cup {a}) = Load(S) + Pcu[a]
<1> DEFINE U == {a} \X (1..Pcu[a])
<1>1. PICK n \in Nat : n = Pcu[a]
  BY SizeAssumption
<1>2. IsFiniteSet(U) /\ Cardinality(U) = n
  <2>1. IsFiniteSet({a}) /\ Cardinality({a}) = 1
    BY FS_Singleton
  <2>2. IsFiniteSet(1..n) /\ Cardinality(1..n) = n
    BY FS_Interval
  <2>3. IsFiniteSet({a} \X (1..n)) /\ Cardinality({a} \X (1..n)) = Cardinality({a}) * Cardinality(1..n)
    BY <2>1, <2>2, FS_Product
  <2>4. 1 * n = n
    OBVIOUS
  <2>5. U = {a} \X (1..n)
    BY <1>1
  <2> HIDE DEF U
  <2> QED BY <2>1, <2>2, <2>3, <2>4, <2>5
<1>3. Units(S \cup {a}) = Units(S) \cup U
  BY DEF Units
<1>4. Units(S) \cap U = {}
  <2>1. ASSUME NEW u \in Units(S) PROVE u \notin U
    <3>1. PICK b \in S : u \in {b} \X (1..Pcu[b])
      BY DEF Units
    <3>2. u[1] = b
      BY <3>1
    <3>3. u \in U => u[1] = a
      OBVIOUS
    <3> QED BY <3>2, <3>3
  <2> QED BY <2>1
<1> HIDE DEF U
<1>5. IsFiniteSet(Units(S)) /\ Cardinality(Units(S)) \in Nat
  BY UnitsAreFinite DEF Load
<1>6. Cardinality(Units(S) \cup U) = Cardinality(Units(S)) + n - Cardinality({})
  BY <1>2, <1>4, <1>5, FS_Union
<1>7. Cardinality({}) = 0
  BY FS_EmptySet
<1>8. Cardinality(Units(S) \cup U) = Cardinality(Units(S)) + n
  <2>1. PICK m \in Nat : m = Cardinality(Units(S))
    BY <1>5
  <2>2. m + n - 0 = m + n
    OBVIOUS
  <2> QED BY <1>6, <1>7, <2>1, <2>2
<1>9. Cardinality(Units(S \cup {a})) = Cardinality(Units(S)) + Pcu[a]
  BY <1>1, <1>3, <1>8
<1> QED BY <1>9 DEF Load

\* One agent less.
LEMMA LoadRemoved ==
  ASSUME NEW S \in SUBSET Agents, NEW a \in S
  PROVE  Load(S \ {a}) = Load(S) - Pcu[a]
<1>1. S \ {a} \in SUBSET Agents /\ a \in Agents /\ a \notin S \ {a}
  OBVIOUS
<1>2. Load((S \ {a}) \cup {a}) = Load(S \ {a}) + Pcu[a]
  BY <1>1, LoadAdded
<1>3. (S \ {a}) \cup {a} = S
  OBVIOUS
<1>4. PICK m \in Nat : m = Load(S \ {a})
  BY <1>1, UnitsAreFinite
<1>5. PICK n \in Nat : n = Pcu[a]
  BY <1>1, SizeAssumption
<1>6. Load(S) = m + n
  BY <1>2, <1>3, <1>4, <1>5
<1>7. (m + n) - n = m
  OBVIOUS
<1> QED BY <1>4, <1>5, <1>6, <1>7

-----------------------------------------------------------------------------
(* Routes.                                                                 *)

\* An agent that has no route, or has not set out on it.
LEMMA NewOnRoute ==
  ASSUME NEW a \in Agents, NEW r \in AgentRecord, r.pos = 0, r.traj = <<>>,
         r.status \notin {"active", "arrived"},
         \/ r.route = <<>> /\ r.status # "pending"
         \/ r.route # <<>> /\ r.route \in Routes[a] /\ r.status \notin Unmoved
  PROVE  OnRoute(a, r)
<1>1. r.route \in Seq(Edges)
  BY DEF AgentRecord
<1>2. Len(r.route) \in Nat /\ (r.route = <<>> => Len(r.route) = 0)
  BY <1>1, LenProperties, EmptySeq
<1>3. SubSeq(r.route, 1, 0) = <<>>
  <2>1. 0 \in 0..Len(r.route)
    BY <1>2
  <2>2. SubSeq(r.route, 1, 0) \in Seq(Edges) /\ Len(SubSeq(r.route, 1, 0)) = 0
    BY <1>1, <2>1, Beginning
  <2> QED BY <2>2, EmptySeq
<1>4. Driveable(r.route)
  BY <1>2, RouteAssumption DEF Driveable
<1> QED BY <1>2, <1>3, <1>4 DEF OnRoute, Unmoved

\* A path the search may return.
LEMMA PathsHold ==
  ASSUME NEW p \in Paths
  PROVE  p \in Seq(Edges) /\ p # <<>> /\ Driveable(p) /\ Len(p) \in Nat \ {0}
<1>1. p \in SetToAllKPermutations(Edges) /\ p # <<>> /\ Driveable(p)
  BY DEF Paths
<1>2. PICK S \in SUBSET Edges : p \in SetToSeqs(S)
  BY <1>1 DEF SetToAllKPermutations
<1>3. IsFiniteSet(S)
  BY SizeAssumption, FS_Subset
<1>4. IsSeq(p) /\ Range(p) = S
  BY <1>2, <1>3, OrderOfSet
<1>5. p \in Seq(Edges)
  BY <1>4, SeqOverRange
<1> QED BY <1>1, <1>5, LenProperties, EmptySeq

\* A route up to the edge at pos, and from there along p: q, edge by edge.
FollowsThen(q, route, pos, p) ==
  /\ p[1] = route[pos] /\ Len(q) = (pos - 1) + Len(p)
  /\ \A j \in 1..(pos - 1) : q[j] = route[j]
  /\ \A j \in 1..Len(p) : q[(pos - 1) + j] = p[j]

LEMMA Spliced ==
  ASSUME NEW route \in Seq(Edges), NEW pos \in 1..Len(route), Driveable(route),
         NEW p \in Seq(Edges), Len(p) \in Nat \ {0}, Driveable(p),
         NEW q \in Seq(Edges), FollowsThen(q, route, pos, p)
  PROVE  /\ q # <<>> /\ pos <= Len(q) /\ q[pos] = route[pos]
         /\ SubSeq(q, 1, pos) = SubSeq(route, 1, pos)
         /\ Driveable(q) /\ Last(q) = Last(p)
<1>0. /\ p[1] = route[pos] /\ Len(q) = (pos - 1) + Len(p)
      /\ \A j \in 1..(pos - 1) : q[j] = route[j]
      /\ \A j \in 1..Len(p) : q[(pos - 1) + j] = p[j]
  BY DEF FollowsThen
<1>1. Len(route) \in Nat /\ Len(q) \in Nat
  BY LenProperties
<1>2. pos \in Nat /\ pos >= 1 /\ pos <= Len(route)
  BY <1>1
<1>3. pos \in 1..Len(q) /\ Len(q) # 0
  BY <1>0, <1>1, <1>2
<1>4. \A j \in 1..pos : q[j] = route[j]
  <2>1. ASSUME NEW j \in 1..pos PROVE q[j] = route[j]
    <3>1. CASE j \in 1..(pos - 1)
      BY <1>0, <3>1
    <3>2. CASE j \notin 1..(pos - 1)
      <4>1. j = (pos - 1) + 1 /\ j = pos /\ 1 \in 1..Len(p)
        BY <1>2, <3>2
      <4> QED BY <1>0, <4>1
    <3> QED BY <3>1, <3>2
  <2> QED BY <2>1
<1>5. SubSeq(q, 1, pos) = SubSeq(route, 1, pos)
  <2>1. pos \in 0..Len(q) /\ pos \in 0..Len(route)
    BY <1>1, <1>2, <1>3
  <2>2. /\ SubSeq(q, 1, pos) \in Seq(Edges) /\ Len(SubSeq(q, 1, pos)) = pos
        /\ \A i \in 1..pos : SubSeq(q, 1, pos)[i] = q[i]
    BY <2>1, Beginning
  <2>3. /\ SubSeq(route, 1, pos) \in Seq(Edges) /\ Len(SubSeq(route, 1, pos)) = pos
        /\ \A i \in 1..pos : SubSeq(route, 1, pos)[i] = route[i]
    BY <2>1, Beginning
  <2>4. /\ Len(SubSeq(q, 1, pos)) = Len(SubSeq(route, 1, pos))
        /\ \A i \in 1..Len(SubSeq(q, 1, pos)) : SubSeq(q, 1, pos)[i] = SubSeq(route, 1, pos)[i]
    BY <1>4, <2>2, <2>3
  <2> QED BY <2>2, <2>3, <2>4, SeqEqual
<1>6. ASSUME NEW i \in 1..(Len(q) - 1) PROVE q[i + 1] \in Transitions[q[i]]
  <2>1. i \in 1..Len(q) /\ i + 1 \in 1..Len(q)
    BY <1>1
  <2>2. CASE i + 1 <= pos
    <3>1. i \in 1..(Len(route) - 1) /\ i \in 1..pos /\ i + 1 \in 1..pos
      BY <1>1, <1>2, <2>2
    <3> QED BY <1>4, <3>1 DEF Driveable
  <2>3. CASE ~(i + 1 <= pos)
    <3>1. PICK k \in 1..(Len(p) - 1) : i = (pos - 1) + k
      <4>1. i - (pos - 1) \in 1..(Len(p) - 1) /\ i = (pos - 1) + (i - (pos - 1))
        BY <1>0, <1>1, <1>2, <2>3
      <4> QED BY <4>1
    <3>2. k \in 1..Len(p) /\ k + 1 \in 1..Len(p) /\ i + 1 = (pos - 1) + (k + 1)
      BY <1>2, <3>1
    <3>3. q[i] = p[k] /\ q[i + 1] = p[k + 1]
      BY <1>0, <3>1, <3>2
    <3> QED BY <3>1, <3>3 DEF Driveable
  <2> QED BY <2>2, <2>3
<1>7. Last(q) = Last(p)
  <2>1. Len(p) \in 1..Len(p)
    OBVIOUS
  <2>2. q[Len(q)] = p[Len(p)]
    BY <1>0, <2>1
  <2> QED BY <2>2 DEF Last
<1>8. q # <<>>
  BY <1>3, EmptySeq
<1>9. pos <= Len(q)
  BY <1>3
<1> QED BY <1>3, <1>4, <1>5, <1>6, <1>7, <1>8, <1>9 DEF Driveable

LEMMA SpliceFollows ==
  ASSUME NEW route \in Seq(Edges), NEW pos \in 1..Len(route),
         NEW p \in Seq(Edges), Len(p) \in Nat \ {0}, p[1] = route[pos]
  PROVE  LET q == SubSeq(route, 1, pos - 1) \o p IN
         q \in Seq(Edges) /\ FollowsThen(q, route, pos, p)
<1>1. PICK s : s = SubSeq(route, 1, pos - 1)
  OBVIOUS
<1>2. /\ s \in Seq(Edges) /\ Len(s) = pos - 1
      /\ \A i \in 1..(pos - 1) : s[i] = route[i]
  <2>1. pos - 1 \in 0..Len(route)
    BY LenProperties
  <2> QED BY <1>1, <2>1, Beginning
<1>3. Len(s) \in Nat
  BY <1>2, LenProperties
<1> DEFINE q == s \o p
<1>4. /\ q \in Seq(Edges) /\ Len(q) = Len(s) + Len(p)
      /\ \A j \in 1..(Len(s) + Len(p)) : q[j] = IF j <= Len(s) THEN s[j] ELSE p[j - Len(s)]
  BY <1>2, ConcatProperties
<1> HIDE DEF q
<1>5. ASSUME NEW j \in 1..(pos - 1) PROVE q[j] = route[j]
  <2>1. j \in 1..(Len(s) + Len(p)) /\ j <= Len(s)
    BY <1>2, <1>3
  <2> QED BY <1>2, <1>4, <2>1
<1>6. ASSUME NEW j \in 1..Len(p) PROVE q[(pos - 1) + j] = p[j]
  <2>1. /\ Len(s) + j \in 1..(Len(s) + Len(p)) /\ ~(Len(s) + j <= Len(s))
        /\ (Len(s) + j) - Len(s) = j
    BY <1>3
  <2>2. q[Len(s) + j] = p[j]
    BY <1>4, <2>1
  <2> QED BY <1>2, <2>2
<1>7. FollowsThen(q, route, pos, p)
  BY <1>2, <1>4, <1>5, <1>6 DEF FollowsThen
<1> QED BY <1>1, <1>4, <1>7 DEF q

\* A route spliced with a path from where the agent is to where it goes.
LEMMA SplicedOnRoute ==
  ASSUME NEW a \in Agents, NEW r \in AgentRecord, OnRoute(a, r), r.pos >= 1,
         NEW p \in Paths, p[1] = r.route[r.pos], Last(p) = Last(r.route)
  PROVE  LET q == SubSeq(r.route, 1, r.pos - 1) \o p IN
         /\ q \in Seq(Edges) /\ q # <<>> /\ r.pos <= Len(q) /\ q[r.pos] = r.route[r.pos]
         /\ SubSeq(q, 1, r.pos) = r.traj /\ Driveable(q) /\ Last(q) = Last(r.route)
<1>1. PICK route, pos : route = r.route /\ pos = r.pos
  OBVIOUS
<1>2. /\ route \in Seq(Edges) /\ pos \in 1..Len(route) /\ Driveable(route)
      /\ r.traj = SubSeq(route, 1, pos)
  BY <1>1, LenProperties DEF AgentRecord, OnRoute
<1>3. p \in Seq(Edges) /\ Driveable(p) /\ Len(p) \in Nat \ {0}
  BY PathsHold
<1>4. p[1] = route[pos]
  BY <1>1
<1>5. PICK q : q = SubSeq(route, 1, pos - 1) \o p
  OBVIOUS
<1>6. q \in Seq(Edges) /\ FollowsThen(q, route, pos, p)
  BY <1>2, <1>3, <1>4, <1>5, SpliceFollows
<1>7. /\ q # <<>> /\ pos <= Len(q) /\ q[pos] = route[pos]
      /\ SubSeq(q, 1, pos) = SubSeq(route, 1, pos)
      /\ Driveable(q) /\ Last(q) = Last(p)
  BY <1>2, <1>3, <1>6, Spliced
<1> QED BY <1>1, <1>2, <1>5, <1>6, <1>7

\* One edge further.
LEMMA DrivenOn ==
  ASSUME NEW s \in Seq(Edges), NEW n \in 0..(Len(s) - 1)
  PROVE  Append(SubSeq(s, 1, n), s[n + 1]) = SubSeq(s, 1, n + 1)
<1> DEFINE t == Append(SubSeq(s, 1, n), s[n + 1])
           u == SubSeq(s, 1, n + 1)
<1>1. Len(s) \in Nat /\ \A i \in 1..Len(s) : s[i] \in Edges
  BY LenProperties, ElementOfSeq
<1>2. n \in 0..Len(s) /\ n + 1 \in 0..Len(s) /\ n + 1 \in 1..Len(s) /\ n \in Nat
  BY <1>1
<1>3. /\ SubSeq(s, 1, n) \in Seq(Edges) /\ Len(SubSeq(s, 1, n)) = n
      /\ \A i \in 1..n : SubSeq(s, 1, n)[i] = s[i]
  BY <1>2, Beginning
<1>4. u \in Seq(Edges) /\ Len(u) = n + 1 /\ \A i \in 1..(n + 1) : u[i] = s[i]
  BY <1>2, Beginning
<1>5. /\ t \in Seq(Edges) /\ Len(t) = n + 1 /\ t[n + 1] = s[n + 1]
      /\ \A i \in 1..n : t[i] = SubSeq(s, 1, n)[i]
  <2>1. s[n + 1] \in Edges
    BY <1>1, <1>2
  <2> QED BY <1>3, <2>1, AppendProperties
<1> HIDE DEF t, u
<1>6. ASSUME NEW i \in 1..(n + 1) PROVE t[i] = u[i]
  <2>1. i \in 1..n \/ i = n + 1
    BY <1>2
  <2> QED BY <1>3, <1>4, <1>5, <2>1
<1>7. t = u
  <2>1. Len(t) = Len(u) /\ \A i \in 1..Len(t) : t[i] = u[i]
    BY <1>4, <1>5, <1>6
  <2> QED BY <1>4, <1>5, <2>1, SeqEqual
<1> QED BY <1>7 DEF t, u

\* The first edge.
LEMMA FirstEdge ==
  ASSUME NEW e \in Edges
  PROVE  <<e>> \in Seq(Edges) /\ Len(<<e>>) = 1 /\ <<e>>[1] = e /\ Last(<<e>>) = e
  BY SMT DEF Last

-----------------------------------------------------------------------------
(* Agents' records.                                                        *)

LEMMA OneField ==
  ASSUME NEW r \in AgentRecord
  PROVE  /\ \A v \in Statuses : [r EXCEPT !.status = v] \in AgentRecord
         /\ \A v \in Nat : [r EXCEPT !.depart = v] \in AgentRecord
         /\ \A v \in Seq(Edges) : [r EXCEPT !.route = v] \in AgentRecord
         /\ \A v \in Nat : [r EXCEPT !.pos = v] \in AgentRecord
         /\ \A v \in BOOLEAN : [r EXCEPT !.end = v] \in AgentRecord
         /\ \A v \in BOOLEAN : [r EXCEPT !.force = v] \in AgentRecord
         /\ \A v \in Int : [r EXCEPT !.last = v] \in AgentRecord
         /\ \A v \in Seq(Edges) : [r EXCEPT !.traj = v] \in AgentRecord
  BY Zenon DEF AgentRecord

LEMMA NewAgentFields ==
  ASSUME NEW status \in Statuses
  PROVE  LET r == NewAgent(status) IN
         /\ r \in AgentRecord /\ r.status = status
         /\ r.route = <<>> /\ r.pos = 0 /\ r.traj = <<>>
<1>1. Never \in Int
  BY DEF Never
<1>2. <<>> \in Seq(Edges) /\ 0 \in Nat /\ FALSE \in BOOLEAN
  BY EmptySeq
<1>3. NewAgent(status) \in AgentRecord
  BY <1>1, <1>2, Zenon DEF NewAgent, AgentRecord
<1> QED BY <1>3 DEF NewAgent

\* An agent before its dispatch, and after it.
LEMMA PlannedFields ==
  ASSUME NEW d \in Nat
  PROVE  LET r == [NewAgent("planned") EXCEPT !.depart = d] IN
         /\ r \in AgentRecord /\ r.status = "planned"
         /\ r.route = <<>> /\ r.pos = 0 /\ r.traj = <<>>
<1>1. PICK s : s = NewAgent("planned")
  OBVIOUS
<1>2. /\ s \in AgentRecord /\ s.status = "planned"
      /\ s.route = <<>> /\ s.pos = 0 /\ s.traj = <<>>
  BY <1>1, NewAgentFields DEF Statuses
<1>3. [s EXCEPT !.depart = d] \in AgentRecord
  BY <1>2, OneField
<1>4. LET r == [s EXCEPT !.depart = d] IN
      r.status = "planned" /\ r.route = <<>> /\ r.pos = 0 /\ r.traj = <<>>
  BY <1>2 DEF AgentRecord
<1> QED BY <1>1, <1>3, <1>4

LEMMA RoutedFields ==
  ASSUME NEW d \in Nat, NEW route \in Seq(Edges)
  PROVE  LET r == [NewAgent("pending") EXCEPT !.depart = d, !.route = route] IN
         /\ r \in AgentRecord /\ r.status = "pending"
         /\ r.route = route /\ r.pos = 0 /\ r.traj = <<>>
<1>1. PICK s : s = NewAgent("pending")
  OBVIOUS
<1>2. s \in AgentRecord /\ s.status = "pending" /\ s.pos = 0 /\ s.traj = <<>>
  BY <1>1, NewAgentFields DEF Statuses
<1>3. [s EXCEPT !.depart = d, !.route = route] = [[s EXCEPT !.depart = d] EXCEPT !.route = route]
  BY <1>2 DEF AgentRecord
<1>4. [s EXCEPT !.depart = d] \in AgentRecord
  BY <1>2, OneField
<1>5. [[s EXCEPT !.depart = d] EXCEPT !.route = route] \in AgentRecord
  BY <1>4, OneField
<1>6. LET r == [s EXCEPT !.depart = d, !.route = route] IN
      r.status = "pending" /\ r.route = route /\ r.pos = 0 /\ r.traj = <<>>
  BY <1>2 DEF AgentRecord
<1> QED BY <1>1, <1>3, <1>5, <1>6

\* An agent that gets another status keeps the rest.
LEMMA StatusFields ==
  ASSUME NEW r \in AgentRecord, NEW status \in Statuses
  PROVE  LET q == [r EXCEPT !.status = status] IN
         /\ q \in AgentRecord /\ q.status = status
         /\ q.route = r.route /\ q.pos = r.pos /\ q.traj = r.traj
<1>1. [r EXCEPT !.status = status] \in AgentRecord
  BY OneField
<1>2. LET q == [r EXCEPT !.status = status] IN
      q.status = status /\ q.route = r.route /\ q.pos = r.pos /\ q.traj = r.traj
  BY DEF AgentRecord
<1> QED BY <1>1, <1>2

-----------------------------------------------------------------------------
(* A step changes one agent, or none.                                      *)

OneAgent(a, q) == agent' = [agent EXCEPT ![a] = q]

LEMMA OthersStay ==
  ASSUME TypeOK, NEW a \in Agents, NEW q, OneAgent(a, q)
  PROVE  /\ agent'[a] = q /\ \A b \in Agents : b # a => agent'[b] = agent[b]
         /\ q \in AgentRecord => agent' \in [Agents -> AgentRecord]
  BY DEF TypeOK, OneAgent

\* Departing: the first edge of the route.
LEMMA SpawnedFields ==
  ASSUME TypeOK, NEW a \in Agents, NEW e \in Edges,
         agent' = [agent EXCEPT ![a].status = "active", ![a].pos = 1, ![a].traj = <<e>>]
  PROVE  \E q \in AgentRecord :
           /\ OneAgent(a, q) /\ q.status = "active" /\ q.pos = 1 /\ q.traj = <<e>>
           /\ q.route = agent[a].route
<1>1. PICK r \in AgentRecord : r = agent[a]
  BY DEF TypeOK
<1>2. PICK t \in Seq(Edges) : t = <<e>>
  BY FirstEdge
<1> DEFINE q == [[[r EXCEPT !.status = "active"] EXCEPT !.pos = 1] EXCEPT !.traj = t]
<1>3. "active" \in Statuses /\ 1 \in Nat
  BY DEF Statuses
<1>4. [r EXCEPT !.status = "active"] \in AgentRecord
  BY <1>3, OneField
<1>5. [[r EXCEPT !.status = "active"] EXCEPT !.pos = 1] \in AgentRecord
  BY <1>3, <1>4, OneField
<1>6. q \in AgentRecord
  BY <1>5, OneField
<1>7. q.status = "active" /\ q.pos = 1 /\ q.traj = t /\ q.route = r.route
  BY DEF AgentRecord
<1>8. q = [r EXCEPT !.status = "active", !.pos = 1, !.traj = t]
  BY DEF AgentRecord
<1>9. agent' = [agent EXCEPT ![a] = [r EXCEPT !.status = "active", !.pos = 1, !.traj = t]]
  BY <1>1, <1>2 DEF TypeOK, AgentRecord
<1>10. OneAgent(a, q)
  BY <1>8, <1>9, Zenon DEF OneAgent
<1> HIDE DEF q
<1> QED BY <1>1, <1>2, <1>6, <1>7, <1>10

\* Crossing: one edge further.
LEMMA CrossedFields ==
  ASSUME TypeOK, NEW a \in Agents, NEW e \in Edges,
         agent' = [agent EXCEPT ![a].pos = @ + 1, ![a].end = FALSE, ![a].traj = Append(@, e)]
  PROVE  \E q \in AgentRecord :
           /\ OneAgent(a, q) /\ q.status = agent[a].status /\ q.route = agent[a].route
           /\ q.pos = agent[a].pos + 1 /\ q.traj = Append(agent[a].traj, e)
<1>1. PICK r \in AgentRecord : r = agent[a]
  BY DEF TypeOK
<1>2. PICK t : t = Append(r.traj, e)
  OBVIOUS
<1>3. PICK n : n = r.pos + 1
  OBVIOUS
<1>4. t \in Seq(Edges) /\ n \in Nat /\ FALSE \in BOOLEAN
  BY <1>2, <1>3, AppendProperties DEF AgentRecord
<1> DEFINE q == [[[r EXCEPT !.pos = n] EXCEPT !.end = FALSE] EXCEPT !.traj = t]
<1>5. [r EXCEPT !.pos = n] \in AgentRecord
  BY <1>4, OneField
<1>6. [[r EXCEPT !.pos = n] EXCEPT !.end = FALSE] \in AgentRecord
  BY <1>4, <1>5, OneField
<1>7. q \in AgentRecord
  BY <1>4, <1>6, OneField
<1>8. q.status = r.status /\ q.pos = n /\ q.traj = t /\ q.route = r.route
  BY DEF AgentRecord
<1>9. q = [r EXCEPT !.pos = n, !.end = FALSE, !.traj = t]
  BY DEF AgentRecord
<1>10. agent' = [agent EXCEPT ![a] = [r EXCEPT !.pos = n, !.end = FALSE, !.traj = t]]
  BY <1>1, <1>2, <1>3 DEF TypeOK, AgentRecord
<1>11. OneAgent(a, q)
  BY <1>9, <1>10, Zenon DEF OneAgent
<1> HIDE DEF q
<1> QED BY <1>1, <1>2, <1>3, <1>7, <1>8, <1>11

\* Waiting: neither the route nor the place changes.
LEMMA WaitingFields ==
  ASSUME TypeOK, NEW a \in Agents, NEW force \in BOOLEAN,
         agent' = [agent EXCEPT ![a].end = TRUE, ![a].force = force]
  PROVE  \E q \in AgentRecord :
           /\ OneAgent(a, q) /\ q.status = agent[a].status /\ q.route = agent[a].route
           /\ q.pos = agent[a].pos /\ q.traj = agent[a].traj
<1>1. PICK r \in AgentRecord : r = agent[a]
  BY DEF TypeOK
<1> DEFINE q == [[r EXCEPT !.end = TRUE] EXCEPT !.force = force]
<1>2. [r EXCEPT !.end = TRUE] \in AgentRecord
  BY OneField
<1>3. q \in AgentRecord
  BY <1>2, OneField
<1>4. q.status = r.status /\ q.pos = r.pos /\ q.traj = r.traj /\ q.route = r.route
  BY DEF AgentRecord
<1>5. q = [r EXCEPT !.end = TRUE, !.force = force]
  BY DEF AgentRecord
<1>6. agent' = [agent EXCEPT ![a] = [r EXCEPT !.end = TRUE, !.force = force]]
  BY <1>1 DEF TypeOK, AgentRecord
<1>7. OneAgent(a, q)
  BY <1>5, <1>6, Zenon DEF OneAgent
<1> HIDE DEF q
<1> QED BY <1>1, <1>3, <1>4, <1>7

\* Rerouting: another route.
LEMMA ReroutedFields ==
  ASSUME TypeOK, NEW a \in Agents, NEW route \in Seq(Edges),
         agent' = [agent EXCEPT ![a].force = FALSE, ![a].last = tick, ![a].route = route]
  PROVE  \E q \in AgentRecord :
           /\ OneAgent(a, q) /\ q.status = agent[a].status /\ q.route = route
           /\ q.pos = agent[a].pos /\ q.traj = agent[a].traj
<1>1. PICK r \in AgentRecord : r = agent[a]
  BY DEF TypeOK
<1>2. PICK n \in Int : n = tick
  BY DEF TypeOK
<1> DEFINE q == [[[r EXCEPT !.force = FALSE] EXCEPT !.last = n] EXCEPT !.route = route]
<1>3. [r EXCEPT !.force = FALSE] \in AgentRecord
  BY OneField
<1>4. [[r EXCEPT !.force = FALSE] EXCEPT !.last = n] \in AgentRecord
  BY <1>3, OneField
<1>5. q \in AgentRecord
  BY <1>4, OneField
<1>6. q.status = r.status /\ q.pos = r.pos /\ q.traj = r.traj /\ q.route = route
  BY DEF AgentRecord
<1>7. q = [r EXCEPT !.force = FALSE, !.last = n, !.route = route]
  BY DEF AgentRecord
<1>8. agent' = [agent EXCEPT ![a] = [r EXCEPT !.force = FALSE, !.last = n, !.route = route]]
  BY <1>1, <1>2 DEF TypeOK, AgentRecord
<1>9. OneAgent(a, q)
  BY <1>7, <1>8, Zenon DEF OneAgent
<1> HIDE DEF q
<1> QED BY <1>1, <1>5, <1>6, <1>9

\* Arriving: the place on the route stays.
LEMMA ArrivedFields ==
  ASSUME TypeOK, NEW a \in Agents, agent' = [agent EXCEPT ![a].status = "arrived"]
  PROVE  \E q \in AgentRecord :
           /\ OneAgent(a, q) /\ q.status = "arrived" /\ q.route = agent[a].route
           /\ q.pos = agent[a].pos /\ q.traj = agent[a].traj
<1>1. PICK r \in AgentRecord : r = agent[a]
  BY DEF TypeOK
<1>2. PICK q : q = [r EXCEPT !.status = "arrived"]
  OBVIOUS
<1>3. /\ q \in AgentRecord /\ q.status = "arrived"
      /\ q.route = r.route /\ q.pos = r.pos /\ q.traj = r.traj
  BY <1>2, StatusFields DEF Statuses
<1>4. OneAgent(a, q)
  BY <1>1, <1>2 DEF TypeOK, AgentRecord, OneAgent
<1> QED BY <1>1, <1>3, <1>4

\* Whoever has no route has no trajectory.
LEMMA UnmovedTrajectory ==
  ASSUME NEW a, NEW r \in AgentRecord, OnRoute(a, r), r.status \in Unmoved
  PROVE  r.traj = <<>>
<1>1. r.route = <<>> /\ r.pos = 0
  <2>1. r.route = <<>> /\ Len(<<>>) = 0
    BY EmptySequence DEF OnRoute
  <2>2. r.pos \in Nat /\ r.pos <= 0
    BY <2>1 DEF OnRoute, AgentRecord
  <2> QED BY <2>1, <2>2
<1>2. SubSeq(r.route, 1, 0) \in Seq(Edges) /\ Len(SubSeq(r.route, 1, 0)) = 0
  <2>1. r.route \in Seq(Edges) /\ 0 \in 0..Len(r.route)
    BY <1>1, EmptySequence DEF AgentRecord
  <2> QED BY <2>1, Beginning
<1> QED BY <1>1, <1>2, EmptySeq DEF OnRoute

-----------------------------------------------------------------------------
(* What a step leaves alone.                                               *)

\* No agent changes its status.
StatusesStay == \A a \in Agents : agent'[a].status = agent[a].status

LEMMA HavingStays ==
  ASSUME NEW status, \A a \in Agents : agent'[a].status = status <=> agent[a].status = status
  PROVE  Having(status)' = Having(status)
  BY DEF Having

LEMMA KnownStays ==
  ASSUME \A a \in Agents : agent'[a].status = "unknown" <=> agent[a].status = "unknown"
  PROVE  Known' = Known
  BY DEF Known

LEMMA QueuesStay ==
  ASSUME InQueues, UNCHANGED <<pending, retry>>, Having("pending")' = Having("pending"),
         Line' = Line, at \in Over => at' \in Over
  PROVE  InQueues'
  BY DEF InQueues, Distinct

LEMMA UnderwayStays ==
  ASSUME Underway, UNCHANGED active, Having("active")' = Having("active")
  PROVE  Underway'
  BY DEF Underway, Distinct

\* No loop over agents goes on.
LEMMA NoLoop ==
  ASSUME at' \notin {"move", "reroute"}
  PROVE  InLoops'
  BY DEF InLoops

\* A loop goes on and no agent changes its status.
LEMMA LoopsStay ==
  ASSUME InLoops, UNCHANGED <<at, todo, candidates>>, Having("active")' = Having("active")
  PROVE  InLoops'
  BY DEF InLoops, Distinct

\* The commands are where they were.
LEMMA FreshStays ==
  ASSUME Fresh, UNCHANGED <<script, inbox>>, InHand' = InHand, at' = "start" => at = "start",
         \A a \in Agents : agent[a].status = "unknown" => agent'[a].status = "unknown"
  PROVE  Fresh'
<1>1. Announced' = Announced
  BY DEF Announced, Spawning
<1>2. Once(script)' /\ Once(inbox)' /\ Once(InHand)'
  BY DEF Fresh, Once
<1>3. /\ Spawning(script)' = Spawning(script) /\ Spawning(inbox)' = Spawning(inbox)
      /\ Spawning(InHand)' = Spawning(InHand)
  BY DEF Spawning
<1>4. /\ Announced' \cap Range(Fleets) = {}
      /\ \A a \in Agents : Fleet[a] \in Announced' => agent'[a].status = "unknown"
      /\ at' = "start" => \A a \in Agents : agent'[a].status = "unknown"
  BY <1>1 DEF Fresh
<1> HIDE DEF Announced, InHand, Range
<1> QED BY <1>2, <1>3, <1>4 DEF Fresh

LEMMA CountedStays ==
  ASSUME Counted, UNCHANGED report, Known' = Known,
         Having("failed")' = Having("failed"), Having("arrived")' = Having("arrived")
  PROVE  Counted'
  BY DEF Counted

\* The agents on an edge.
On(e) == {a \in Agents : agent[a].status = "active" /\ Edge(a) = e}

LEMMA LoadsByEdge ==
  OccupancyMatches <=> \A e \in Edges : occupancy[e] = Load(On(e))
  BY DEF OccupancyMatches, On

LEMMA OnStays ==
  ASSUME \A a \in Agents : agent'[a].status = "active" <=> agent[a].status = "active",
         \A a \in Agents : agent[a].status = "active" =>
            agent'[a].route[agent'[a].pos] = agent[a].route[agent[a].pos]
  PROVE  \A e \in Edges : On(e)' = On(e)
  BY DEF On, Edge

LEMMA LoadsStay ==
  ASSUME OccupancyMatches, UNCHANGED occupancy, \A e \in Edges : On(e)' = On(e)
  PROVE  OccupancyMatches'
<1>1. ASSUME NEW e \in Edges PROVE occupancy'[e] = Load(On(e)')
  BY <1>1, LoadsByEdge
<1>2. (\A e \in Edges : occupancy[e] = Load(On(e)))'
  BY <1>1 DEF Load, Units
<1>3. (OccupancyMatches <=> \A e \in Edges : occupancy[e] = Load(On(e)))'
  BY LoadsByEdge, PTL
<1> QED BY <1>2, <1>3

\* The agents' parts of the invariant.
AboutAgents == AllOnRoute /\ Underway /\ Counted /\ OccupancyMatches

LEMMA AgentsStay ==
  ASSUME AboutAgents, UNCHANGED <<agent, active, occupancy, report>>
  PROVE  AboutAgents'
<1>1. \A status : Having(status)' = Having(status)
  BY DEF Having
<1>2. Known' = Known
  BY KnownStays
<1>3. \A e \in Edges : On(e)' = On(e)
  BY OnStays
<1>4. AllOnRoute'
  BY DEF AboutAgents, AllOnRoute
<1>5. Underway'
  BY <1>1, UnderwayStays DEF AboutAgents
<1>6. Counted'
  BY <1>1, <1>2, CountedStays DEF AboutAgents
<1>7. OccupancyMatches'
  BY <1>3, LoadsStay DEF AboutAgents
<1> QED BY <1>4, <1>5, <1>6, <1>7 DEF AboutAgents

\* The run goes on.
LEMMA NotEnding ==
  ASSUME Ending, at \notin Over, at' \notin Over, ~Finished', UNCHANGED <<outcome, summary>>
  PROVE  Ending' /\ SummaryAddsUp'
<1>1. summary = NoSummary /\ outcome = "none"
  BY DEF Ending, Over
<1> QED BY <1>1 DEF Ending, SummaryAddsUp, NoSummary, Over

\* A step of the callers.
LEMMA EndStays ==
  ASSUME Ending, SummaryAddsUp, UNCHANGED <<at, state, outcome, summary, report>>
  PROVE  Ending' /\ SummaryAddsUp'
  BY DEF Ending, SummaryAddsUp, NoSummary, Over, Finished

\* A step outside the loops over agents that touches neither agents nor queues.
LEMMA QuietStep ==
  ASSUME IInv, UNCHANGED traffic, at # "spawn", at' \notin {"spawn", "move", "reroute"},
         at \in Over => at' \in Over
  PROVE  AboutAgents' /\ InQueues' /\ InLoops'
<1>1. AboutAgents'
  BY AgentsStay DEF IInv, AboutAgents, traffic
<1>2. Having("pending")' = Having("pending") /\ Line' = Line
  BY DEF Having, Line, traffic
<1>3. InQueues'
  BY <1>2, QueuesStay DEF IInv, traffic
<1>4. InLoops'
  BY NoLoop
<1> QED BY <1>1, <1>3, <1>4

LEMMA PartsSuffice ==
  AboutAgents /\ InQueues /\ InLoops /\ TypeOK /\ Fresh /\ Ending /\ SummaryAddsUp => IInv
  BY DEF AboutAgents, IInv
LEMMA PartsSufficeNext ==
  ASSUME AboutAgents', InQueues', InLoops', TypeOK', Fresh', Ending', SummaryAddsUp'
  PROVE  IInv'
<1>1. (AboutAgents /\ InQueues /\ InLoops /\ TypeOK /\ Fresh /\ Ending /\ SummaryAddsUp => IInv)'
  BY PartsSuffice, PTL
<1> QED BY <1>1

-----------------------------------------------------------------------------
(* Commands on their way.                                                  *)

SpawnedBy(c) == IF c.do = "spawn" THEN {c.fleet} ELSE {}

LEMMA NothingSpawned ==
  Spawning(<<>>) = {} /\ Once(<<>>)
<1>1. Len(<<>>) = 0
  BY EmptySequence
<1> QED BY <1>1 DEF Spawning, Once

LEMMA SpawningFirst ==
  ASSUME NEW s, IsSeq(s), s # <<>>
  PROVE  /\ Spawning(s) = SpawnedBy(Head(s)) \cup Spawning(Tail(s))
         /\ Once(s) => /\ Once(Tail(s))
                       /\ SpawnedBy(Head(s)) \cap Spawning(Tail(s)) = {}
<1>1. PICK t, n : t = Tail(s) /\ n = Len(s)
  OBVIOUS
<1>2. /\ n \in Nat \ {0} /\ Len(t) = n - 1 /\ Head(s) = s[1]
      /\ \A j \in 1..(n - 1) : t[j] = s[j + 1]
  BY <1>1, TakeFirst
<1>3. PICK c : c = s[1]
  OBVIOUS
<1>4. ASSUME NEW f \in Spawning(s) PROVE f \in SpawnedBy(c) \cup Spawning(t)
  <2>1. PICK i \in 1..n : s[i].do = "spawn" /\ f = s[i].fleet
    BY <1>1, <1>4 DEF Spawning
  <2>2. CASE i = 1
    BY <1>3, <2>1, <2>2 DEF SpawnedBy
  <2>3. CASE i # 1
    <3>1. i - 1 \in 1..(n - 1) /\ (i - 1) + 1 = i
      BY <1>2, <2>1, <2>3
    <3>2. t[i - 1] = s[i] /\ i - 1 \in 1..Len(t)
      BY <1>2, <3>1
    <3> QED BY <2>1, <3>2 DEF Spawning
  <2> QED BY <2>2, <2>3
<1>5. ASSUME NEW f \in Spawning(t) PROVE f \in Spawning(s)
  <2>1. PICK j \in 1..(n - 1) : t[j].do = "spawn" /\ f = t[j].fleet
    BY <1>2, <1>5 DEF Spawning
  <2>2. j + 1 \in 1..n /\ s[j + 1] = t[j]
    BY <1>2, <2>1
  <2> QED BY <1>1, <2>1, <2>2 DEF Spawning
<1>6. ASSUME NEW f \in SpawnedBy(c) PROVE f \in Spawning(s)
  <2>1. c.do = "spawn" /\ f = c.fleet /\ 1 \in 1..n
    BY <1>2, <1>6 DEF SpawnedBy
  <2> QED BY <1>1, <1>3, <2>1 DEF Spawning
<1>7. Spawning(s) = SpawnedBy(c) \cup Spawning(t)
  BY <1>4, <1>5, <1>6
<1>8. ASSUME Once(s) PROVE Once(t) /\ SpawnedBy(c) \cap Spawning(t) = {}
  <2>1. ASSUME NEW i \in 1..Len(t), NEW j \in 1..Len(t),
               t[i].do = "spawn", t[j].do = "spawn", t[i].fleet = t[j].fleet
        PROVE  i = j
    <3>1. i + 1 \in 1..n /\ j + 1 \in 1..n /\ t[i] = s[i + 1] /\ t[j] = s[j + 1]
      BY <1>2
    <3>2. i + 1 = j + 1
      BY <1>1, <1>8, <2>1, <3>1 DEF Once
    <3> QED BY <3>2
  <2>2. ASSUME NEW f \in SpawnedBy(c), f \in Spawning(t) PROVE FALSE
    <3>1. PICK j \in 1..(n - 1) : t[j].do = "spawn" /\ f = t[j].fleet
      BY <1>2, <2>2 DEF Spawning
    <3>2. 1 \in 1..n /\ j + 1 \in 1..n /\ t[j] = s[j + 1] /\ j + 1 # 1
      BY <1>2, <3>1
    <3>3. s[1].do = "spawn" /\ s[1].fleet = f
      BY <1>3, <2>2 DEF SpawnedBy
    <3> QED BY <1>1, <1>8, <3>1, <3>2, <3>3 DEF Once
  <2> QED BY <2>1, <2>2 DEF Once
<1> QED BY <1>1, <1>2, <1>3, <1>7, <1>8

LEMMA SpawningLast ==
  ASSUME NEW s, IsSeq(s), NEW c
  PROVE  /\ Spawning(Append(s, c)) = Spawning(s) \cup SpawnedBy(c)
         /\ Once(s) /\ SpawnedBy(c) \cap Spawning(s) = {} => Once(Append(s, c))
<1>1. PICK t, n : t = Append(s, c) /\ n = Len(s)
  OBVIOUS
<1>2. n \in Nat /\ Len(t) = n + 1 /\ t[n + 1] = c /\ \A j \in 1..n : t[j] = s[j]
  BY <1>1, AddLast
<1>3. ASSUME NEW f \in Spawning(t) PROVE f \in Spawning(s) \cup SpawnedBy(c)
  <2>1. PICK i \in 1..(n + 1) : t[i].do = "spawn" /\ f = t[i].fleet
    BY <1>2, <1>3 DEF Spawning
  <2>2. CASE i \in 1..n
    BY <1>1, <1>2, <2>1, <2>2 DEF Spawning
  <2>3. CASE i \notin 1..n
    <3>1. i = n + 1
      BY <1>2, <2>3
    <3> QED BY <1>2, <2>1, <3>1 DEF SpawnedBy
  <2> QED BY <2>2, <2>3
<1>4. ASSUME NEW f \in Spawning(s) PROVE f \in Spawning(t)
  <2>1. PICK j \in 1..n : s[j].do = "spawn" /\ f = s[j].fleet
    BY <1>1, <1>4 DEF Spawning
  <2>2. j \in 1..Len(t) /\ t[j] = s[j]
    BY <1>2, <2>1
  <2> QED BY <2>1, <2>2 DEF Spawning
<1>5. ASSUME NEW f \in SpawnedBy(c) PROVE f \in Spawning(t)
  <2>1. c.do = "spawn" /\ f = c.fleet /\ n + 1 \in 1..Len(t)
    BY <1>2, <1>5 DEF SpawnedBy
  <2> QED BY <1>2, <2>1 DEF Spawning
<1>6. Spawning(t) = Spawning(s) \cup SpawnedBy(c)
  BY <1>3, <1>4, <1>5
<1>7. ASSUME Once(s), SpawnedBy(c) \cap Spawning(s) = {} PROVE Once(t)
  <2>1. SUFFICES ASSUME NEW i \in 1..Len(t), NEW j \in 1..Len(t),
                        t[i].do = "spawn", t[j].do = "spawn", t[i].fleet = t[j].fleet
                 PROVE  i = j
    BY DEF Once
  <2>2. \A k \in 1..n : s[k].do = "spawn" => s[k].fleet \in Spawning(s)
    BY <1>1 DEF Spawning
  <2>3. c.do = "spawn" => c.fleet \notin Spawning(s)
    BY <1>7 DEF SpawnedBy
  <2>4. CASE i \in 1..n /\ j \in 1..n
    BY <1>1, <1>2, <1>7, <2>1, <2>4 DEF Once
  <2>5. CASE i \notin 1..n /\ j \notin 1..n
    BY <1>2, <2>5
  <2>6. CASE i \in 1..n /\ j \notin 1..n
    <3>1. j = n + 1
      BY <1>2, <2>6
    <3> QED BY <1>2, <2>1, <2>2, <2>3, <2>6, <3>1
  <2>7. CASE i \notin 1..n /\ j \in 1..n
    <3>1. i = n + 1
      BY <1>2, <2>7
    <3> QED BY <1>2, <2>1, <2>2, <2>3, <2>7, <3>1
  <2> QED BY <2>4, <2>5, <2>6, <2>7
<1> QED BY <1>1, <1>6, <1>7

\* Commands move on towards the engine, or are dropped: what was announced
\* stays fresh.
LEMMA FreshMoves ==
  ASSUME Fresh, at' = "start" => at = "start",
         Once(script)', Once(inbox)', Once(InHand)',
         Spawning(script)' \cap Spawning(inbox)' = {},
         Spawning(script)' \cap Spawning(InHand)' = {},
         Spawning(inbox)' \cap Spawning(InHand)' = {},
         Announced' \subseteq Announced,
         \A a \in Agents : agent[a].status = "unknown" /\ Fleet[a] \in Announced' => agent'[a].status = "unknown",
         at' = "start" => UNCHANGED agent
  PROVE  Fresh'
<1>1. /\ Announced' \cap Range(Fleets) = {}
      /\ \A a \in Agents : Fleet[a] \in Announced' => agent'[a].status = "unknown"
      /\ at' = "start" => \A a \in Agents : agent'[a].status = "unknown"
  BY DEF Fresh
<1> HIDE DEF Announced, InHand, Range
<1> QED BY <1>1 DEF Fresh

-----------------------------------------------------------------------------
(* The callers.                                                            *)

\* A step of a caller: it may add a command to the inbox.
LEMMA CallersStep ==
  ASSUME IInv, IsSeq(inbox'), IsSeq(script'), cancelled' \in BOOLEAN, listed' \in BOOLEAN, Fresh',
         UNCHANGED <<state, outcome, zones, traffic, clock, at, todo, candidates, summary>>
  PROVE  IInv'
<1>1. AboutAgents'
  BY AgentsStay DEF IInv, AboutAgents, traffic
<1>2. /\ Having("pending")' = Having("pending") /\ Having("active")' = Having("active")
      /\ Line' = Line
  BY DEF Having, Line, traffic
<1>3. InQueues'
  BY <1>2, QueuesStay DEF IInv, traffic
<1>4. InLoops'
  BY <1>2, LoopsStay DEF IInv
<1>5. Ending' /\ SummaryAddsUp'
  BY EndStays DEF IInv, traffic
<1>6. TypeOK'
  BY DEF IInv, TypeOK, traffic, clock
<1> QED BY <1>1, <1>3, <1>4, <1>5, <1>6, PartsSufficeNext

LEMMA ControlKeeps ==
  ASSUME IInv, Control
  PROVE  IInv'
<1> DEFINE c == Head(script)
<1>1. IsSeq(script) /\ IsSeq(inbox) /\ script # <<>> /\ script' = Tail(script)
  BY DEF IInv, TypeOK, Control, Asks
<1>2. IsSeq(script') /\ Spawning(script) = SpawnedBy(c) \cup Spawning(script')
  BY <1>1, TakeFirst, SpawningFirst
<1>3. Once(script') /\ SpawnedBy(c) \cap Spawning(script') = {}
  BY <1>1, SpawningFirst DEF IInv, Fresh
<1>4. InHand' = InHand
  BY DEF Control, InHand
<1>5. CASE inbox' = Append(inbox, c) /\ cancelled' = (cancelled \/ c.do = "cancel")
  <2>1. IsSeq(inbox') /\ Spawning(inbox') = Spawning(inbox) \cup SpawnedBy(c)
    BY <1>1, <1>5, AddLast, SpawningLast
  <2>2. Once(inbox')
    <3>1. SpawnedBy(c) \cap Spawning(inbox) = {} /\ Once(inbox)
      BY <1>2 DEF IInv, Fresh
    <3> QED BY <1>1, <1>5, <3>1, SpawningLast
  <2>3. Fresh'
    <3>1. Fresh /\ UNCHANGED <<agent, at>>
      BY DEF IInv, Control, traffic
    <3>2. Announced' = Announced
      BY <1>2, <1>4, <2>1 DEF Announced, Spawning
    <3>3. /\ Once(script)' /\ Once(inbox)' /\ Once(InHand)'
          /\ Spawning(InHand)' = Spawning(InHand)
          /\ Spawning(script)' = Spawning(script') /\ Spawning(inbox)' = Spawning(inbox')
      BY <1>3, <1>4, <2>2, <3>1 DEF Once, Spawning, Fresh
    <3>4. /\ Spawning(script)' \cap Spawning(inbox)' = {}
          /\ Spawning(script)' \cap Spawning(InHand)' = {}
          /\ Spawning(inbox)' \cap Spawning(InHand)' = {}
      BY <1>2, <1>3, <2>1, <3>1, <3>3 DEF Fresh
    <3> QED BY <3>1, <3>2, <3>3, <3>4, FreshMoves
  <2>4. cancelled' \in BOOLEAN
    BY <1>5 DEF IInv, TypeOK
  <2> QED BY <1>2, <2>1, <2>3, <2>4, CallersStep DEF Control, IInv, TypeOK
<1>6. CASE UNCHANGED <<inbox, cancelled>>
  <2>1. Fresh'
    <3>1. Fresh /\ UNCHANGED <<agent, at>>
      BY DEF IInv, Control, traffic
    <3>2. Announced' \subseteq Announced
      BY <1>2, <1>4, <1>6 DEF Announced, Spawning
    <3>3. /\ Once(script)' /\ Once(inbox)' /\ Once(InHand)'
          /\ Spawning(InHand)' = Spawning(InHand)
          /\ Spawning(script)' = Spawning(script') /\ Spawning(inbox)' = Spawning(inbox)
      BY <1>3, <1>4, <1>6, <3>1 DEF Once, Spawning, Fresh
    <3>4. /\ Spawning(script)' \cap Spawning(inbox)' = {}
          /\ Spawning(script)' \cap Spawning(InHand)' = {}
          /\ Spawning(inbox)' \cap Spawning(InHand)' = {}
      BY <1>2, <3>1, <3>3 DEF Fresh
    <3> QED BY <3>1, <3>2, <3>3, <3>4, FreshMoves
  <2> QED BY <1>2, <1>6, <2>1, CallersStep DEF Control, IInv, TypeOK
<1> QED BY <1>5, <1>6 DEF Control, Send

LEMMA DeleteKeeps ==
  ASSUME IInv, Delete
  PROVE  IInv'
<1> DEFINE c == [do |-> "cancel"]
<1>1. /\ IsSeq(script) /\ IsSeq(inbox) /\ script # <<>> /\ script' = Tail(script)
      /\ inbox' = Append(inbox, c)
  BY DEF IInv, TypeOK, Delete, Asks, Send
<1>2. IsSeq(script') /\ Spawning(script') \subseteq Spawning(script)
  BY <1>1, TakeFirst, SpawningFirst
<1>3. Once(script')
  BY <1>1, SpawningFirst DEF IInv, Fresh
<1>4. InHand' = InHand
  BY DEF Delete, InHand
<1>5. SpawnedBy(c) = {}
  BY DEF SpawnedBy
<1> HIDE DEF c
<1>6. IsSeq(inbox') /\ Spawning(inbox') = Spawning(inbox)
  <2>1. IsSeq(inbox') /\ Spawning(inbox') = Spawning(inbox) \cup SpawnedBy(c)
    BY <1>1, AddLast, SpawningLast
  <2> QED BY <1>5, <2>1
<1>7. Once(inbox')
  BY <1>1, <1>5, SpawningLast DEF IInv, Fresh
<1>8. Fresh'
  <2>1. Fresh /\ UNCHANGED <<agent, at>>
    BY DEF IInv, Delete, traffic
  <2>2. Announced' \subseteq Announced
    BY <1>2, <1>4, <1>6 DEF Announced, Spawning
  <2>3. /\ Once(script)' /\ Once(inbox)' /\ Once(InHand)'
        /\ Spawning(InHand)' = Spawning(InHand)
        /\ Spawning(script)' = Spawning(script') /\ Spawning(inbox)' = Spawning(inbox')
    BY <1>3, <1>4, <1>7, <2>1 DEF Once, Spawning, Fresh
  <2>4. /\ Spawning(script)' \cap Spawning(inbox)' = {}
        /\ Spawning(script)' \cap Spawning(InHand)' = {}
        /\ Spawning(inbox)' \cap Spawning(InHand)' = {}
    BY <1>2, <1>6, <2>1, <2>3 DEF Fresh
  <2> QED BY <2>1, <2>2, <2>3, <2>4, FreshMoves
<1>9. cancelled' \in BOOLEAN /\ listed' \in BOOLEAN
  BY DEF IInv, TypeOK, Delete, Send
<1> QED BY <1>2, <1>6, <1>8, <1>9, CallersStep DEF Delete

-----------------------------------------------------------------------------
(* Dispatch.                                                               *)

\* Before the run no agent is known.
LEMMA PlanKeeps ==
  ASSUME IInv, Plan
  PROVE  IInv'
<1> DEFINE S == OfFleets(Fleets)
<1>1. /\ \A a \in Agents : agent[a].status = "unknown"
      /\ at = "start" /\ at' = "dispatch" /\ Fresh /\ AllOnRoute
  BY DEF IInv, Fresh, Plan
<1>2. \A a \in S : /\ agent'[a] \in AgentRecord /\ agent'[a].status = "planned"
                   /\ agent'[a].route = <<>> /\ agent'[a].pos = 0 /\ agent'[a].traj = <<>>
  <2>1. ASSUME NEW a \in S
        PROVE  /\ agent'[a] \in AgentRecord /\ agent'[a].status = "planned"
               /\ agent'[a].route = <<>> /\ agent'[a].pos = 0 /\ agent'[a].traj = <<>>
    <3>1. PICK d \in Nat : d = Depart[a]
      BY TimeAssumption DEF OfFleets
    <3>2. a \in Agents /\ agent'[a] = [NewAgent("planned") EXCEPT !.depart = d]
      BY <3>1 DEF Plan, OfFleets
    <3> QED BY <3>2, PlannedFields
  <2> QED BY <2>1
<1>3. \A a \in Agents : a \notin S => agent'[a] = agent[a]
  BY DEF Plan
<1>4. S \subseteq Agents /\ \A a \in S : Fleet[a] \in Range(Fleets)
  <2>1. DOMAIN Fleets = 1..Len(Fleets)
    BY ScriptAssumption, LenProperties
  <2> QED BY <2>1 DEF OfFleets, Range
<1> HIDE DEF S
<1>5. agent' \in [Agents -> AgentRecord]
  <2>1. DOMAIN agent' = Agents /\ agent' = [a \in Agents |-> agent'[a]]
    BY DEF Plan
  <2>2. \A a \in Agents : agent'[a] \in AgentRecord
    BY <1>2, <1>3 DEF IInv, TypeOK
  <2> QED BY <2>1, <2>2
<1>6. AllOnRoute'
  <2>1. ASSUME NEW a \in S PROVE OnRoute(a, agent'[a])
    <3>1. PICK r \in AgentRecord : r = agent'[a]
      BY <1>2
    <3>2. r.status = "planned" /\ r.route = <<>> /\ r.pos = 0 /\ r.traj = <<>>
      BY <1>2, <3>1
    <3>3. OnRoute(a, r)
      BY <1>4, <3>2, NewOnRoute
    <3> QED BY <3>1, <3>3
  <2> QED BY <1>1, <1>3, <2>1 DEF AllOnRoute
<1>7. \A a \in Agents : agent'[a].status = IF a \in S THEN "planned" ELSE "unknown"
  BY <1>1, <1>2, <1>3
<1>8. /\ Having("pending")' = {} /\ Having("active")' = {} /\ Having("failed")' = {}
      /\ Having("arrived")' = {}
      /\ Having("pending") = {} /\ Having("active") = {} /\ Having("failed") = {}
      /\ Having("arrived") = {}
  BY <1>1, <1>7 DEF Having
<1>9. InQueues'
  <2>1. Line' = Line
    BY <1>1 DEF Line, Plan
  <2> QED BY <1>1, <1>8, <2>1, QueuesStay DEF IInv, Plan, Over
<1>10. Underway'
  BY <1>8, UnderwayStays DEF IInv, Plan
<1>11. InLoops'
  BY <1>1, NoLoop
<1>12. Known' = S
  BY <1>4, <1>7 DEF Known
<1>13. Counted'
  <2>1. report'.planned = Cardinality(S)
    BY DEF IInv, TypeOK, Plan, S
  <2>2. report'.failed = report.failed /\ report'.arrived = report.arrived
    BY DEF IInv, TypeOK, Plan
  <2> QED BY <1>8, <1>12, <2>1, <2>2 DEF IInv, Counted
<1>14. OccupancyMatches'
  <2>1. \A e \in Edges : On(e)' = On(e)
    BY <1>1, <1>7, OnStays
  <2> QED BY <2>1, LoadsStay DEF IInv, Plan
<1>15. Fresh'
  <2>1. InHand' = InHand
    BY <1>1 DEF InHand, Plan
  <2>2. Announced' = Announced
    BY <2>1 DEF Announced, Spawning, Plan, api
  <2>3. /\ Once(script)' /\ Once(inbox)' /\ Once(InHand)'
        /\ Spawning(script)' = Spawning(script) /\ Spawning(inbox)' = Spawning(inbox)
        /\ Spawning(InHand)' = Spawning(InHand)
    BY <1>1, <2>1 DEF Fresh, Once, Spawning, Plan, api
  <2>4. \A a \in Agents : Fleet[a] \in Announced' => agent'[a].status = "unknown"
    BY <1>1, <1>4, <1>7, <2>2 DEF Fresh
  <2> HIDE DEF Announced, InHand
  <2> QED BY <1>1, <2>2, <2>3, <2>4, FreshMoves DEF Fresh
<1>16. Ending' /\ SummaryAddsUp'
  BY <1>1, NotEnding DEF IInv, Plan, Over, Finished, api
<1>17. TypeOK'
  <2>1. Cardinality(S) \in Nat
    BY <1>4, SizeAssumption, FS_Subset, FS_CardinalityType
  <2>2. report' \in [planned : Nat, failed : Nat, arrived : Nat]
    BY <2>1 DEF IInv, TypeOK, Plan, S
  <2>3. IsSeq(Fleets)
    BY ScriptAssumption DEF IsSeq
  <2> QED BY <1>1, <1>5, <2>2, <2>3 DEF IInv, TypeOK, Plan, clock, api
<1>18. AboutAgents'
  BY <1>6, <1>10, <1>13, <1>14 DEF AboutAgents
<1> QED BY <1>9, <1>11, <1>15, <1>16, <1>17, <1>18, PartsSufficeNext

LEMMA ReportFields ==
  ASSUME NEW r \in [planned : Nat, failed : Nat, arrived : Nat], NEW p \in Nat, NEW n \in Nat
  PROVE  LET q == [[r EXCEPT !.planned = r.planned + p] EXCEPT !.failed = r.failed + n] IN
         /\ q.planned = r.planned + p /\ q.failed = r.failed + n /\ q.arrived = r.arrived
         /\ q \in [planned : Nat, failed : Nat, arrived : Nat]
<1>1. PICK v \in Nat : v = r.planned + p
  OBVIOUS
<1>2. PICK w \in Nat : w = r.failed + n
  OBVIOUS
<1>3. [r EXCEPT !.planned = v] \in [planned : Nat, failed : Nat, arrived : Nat]
  BY Zenon
<1>4. [[r EXCEPT !.planned = v] EXCEPT !.failed = w] \in [planned : Nat, failed : Nat, arrived : Nat]
  BY <1>3, Zenon
<1>5. LET q == [[r EXCEPT !.planned = v] EXCEPT !.failed = w] IN
      q.planned = v /\ q.failed = w /\ q.arrived = r.arrived
  OBVIOUS
<1> QED BY <1>1, <1>2, <1>4, <1>5

\* What routing a set of agents does: some have a route and wait for their
\* departure, the others have failed.
Routed(S, routed, added) ==
  /\ routed \subseteq S
  /\ \A a \in routed : agent'[a].status = "pending"
  /\ \A a \in S \ routed : agent'[a].status = "failed"
  /\ \A a \in S : agent'[a].pos = 0 /\ agent'[a].traj = <<>>
  /\ \A a \in Agents \ S : agent'[a] = agent[a]
  /\ pending' = pending \cup routed
  /\ report'.planned = report.planned + added
  /\ report'.failed = report.failed + Cardinality(S \ routed)
  /\ report'.arrived = report.arrived
  /\ report' \in [planned : Nat, failed : Nat, arrived : Nat]

LEMMA DraftsRouted ==
  ASSUME IInv, NEW S \in SUBSET Agents, NEW from \in Nat, NEW added \in Nat,
         RouteDrafts(S, from, added)
  PROVE  /\ agent' \in [Agents -> AgentRecord] /\ AllOnRoute'
         /\ \E routed \in SUBSET S : Routed(S, routed, added)
<1>1. PICK found \in [S -> UNION {Routes[a] : a \in S}] :
        /\ \A a \in S : found[a] \in Routes[a]
        /\ agent' = [a \in Agents |->
             IF a \in {b \in S : found[b] # <<>>}
             THEN [NewAgent("pending") EXCEPT !.depart = from + Depart[a], !.route = found[a]]
             ELSE IF a \in S THEN NewAgent("failed") ELSE agent[a]]
        /\ pending' = pending \cup {b \in S : found[b] # <<>>}
        /\ report' = [report EXCEPT !.planned = @ + added,
                                    !.failed = @ + Cardinality(S \ {b \in S : found[b] # <<>>})]
  BY DEF RouteDrafts
<1>2. PICK routed \in SUBSET S : routed = {b \in S : found[b] # <<>>}
  OBVIOUS
<1>3. /\ \A a \in S : found[a] \in Routes[a]
      /\ agent' = [a \in Agents |->
           IF a \in routed
           THEN [NewAgent("pending") EXCEPT !.depart = from + Depart[a], !.route = found[a]]
           ELSE IF a \in S THEN NewAgent("failed") ELSE agent[a]]
      /\ pending' = pending \cup routed
      /\ report' = [report EXCEPT !.planned = @ + added, !.failed = @ + Cardinality(S \ routed)]
      /\ \A a \in routed : found[a] # <<>>
  BY <1>1, <1>2
<1>4. ASSUME NEW a \in routed
      PROVE  /\ agent'[a] \in AgentRecord /\ agent'[a].status = "pending" /\ agent'[a].pos = 0
             /\ agent'[a].traj = <<>> /\ OnRoute(a, agent'[a])
  <2>1. PICK d \in Nat : d = from + Depart[a]
    BY TimeAssumption
  <2>2. PICK route \in Seq(Edges) : route = found[a]
    BY <1>3, RouteAssumption
  <2>3. PICK r : r = [NewAgent("pending") EXCEPT !.depart = d, !.route = route]
    OBVIOUS
  <2>4. /\ r \in AgentRecord /\ r.status = "pending" /\ r.route = route /\ r.pos = 0
        /\ r.traj = <<>>
    BY <2>3, RoutedFields
  <2>5. agent'[a] = r
    BY <1>3, <2>1, <2>2, <2>3
  <2>6. a \in Agents /\ route # <<>> /\ route \in Routes[a]
    BY <1>3, <2>2
  <2>7. OnRoute(a, r)
    BY <2>4, <2>6, NewOnRoute DEF Unmoved
  <2> QED BY <2>4, <2>5, <2>7
<1>5. ASSUME NEW a \in S \ routed
      PROVE  /\ agent'[a] \in AgentRecord /\ agent'[a].status = "failed" /\ agent'[a].pos = 0
             /\ agent'[a].traj = <<>> /\ OnRoute(a, agent'[a])
  <2>1. PICK r : r = NewAgent("failed")
    OBVIOUS
  <2>2. /\ r \in AgentRecord /\ r.status = "failed" /\ r.route = <<>> /\ r.pos = 0
        /\ r.traj = <<>>
    BY <2>1, NewAgentFields DEF Statuses
  <2>3. agent'[a] = r /\ a \in Agents
    BY <1>3, <2>1
  <2>4. OnRoute(a, r)
    BY <2>2, <2>3, NewOnRoute
  <2> QED BY <2>2, <2>3, <2>4
<1>6. \A a \in Agents \ S : agent'[a] = agent[a]
  BY <1>3
<1>7. agent' \in [Agents -> AgentRecord]
  <2>1. \A a \in Agents : agent'[a] \in AgentRecord
    BY <1>4, <1>5, <1>6 DEF IInv, TypeOK
  <2>2. agent' = [a \in Agents |-> agent'[a]]
    BY <1>3
  <2> QED BY <2>1, <2>2
<1>8. AllOnRoute'
  BY <1>4, <1>5, <1>6 DEF IInv, AllOnRoute
<1>9. PICK n \in Nat : n = Cardinality(S \ routed)
  BY SizeAssumption, FS_Subset, FS_CardinalityType
<1>10. /\ report'.planned = report.planned + added
       /\ report'.failed = report.failed + n
       /\ report'.arrived = report.arrived
       /\ report' \in [planned : Nat, failed : Nat, arrived : Nat]
  <2>1. PICK r \in [planned : Nat, failed : Nat, arrived : Nat] : r = report
    BY DEF IInv, TypeOK
  <2>2. report' = [[r EXCEPT !.planned = r.planned + added] EXCEPT !.failed = r.failed + n]
    BY <1>3, <1>9, <2>1
  <2> QED BY <2>1, <2>2, ReportFields
<1>11. Routed(S, routed, added)
  BY <1>3, <1>4, <1>5, <1>6, <1>9, <1>10 DEF Routed
<1> QED BY <1>7, <1>8, <1>11

\* Routing agents of whom none is active, in a queue or through.
LEMMA RoutedKeeps ==
  ASSUME IInv, NEW S \in SUBSET Agents, NEW routed \in SUBSET S, NEW added \in Nat,
         Routed(S, routed, added), AllOnRoute',
         \/ (\A a \in S : agent[a].status = "planned") /\ added = 0
         \/ (\A a \in S : agent[a].status = "unknown") /\ added = Cardinality(S),
         UNCHANGED <<retry, active, occupancy>>, Line' = Line, at \notin Over
  PROVE  AboutAgents' /\ InQueues'
<1>1. /\ \A a \in routed : agent'[a].status = "pending" /\ a \in S
      /\ \A a \in S \ routed : agent'[a].status = "failed"
      /\ \A a \in Agents \ S : agent'[a] = agent[a]
      /\ \A a \in S : agent[a].status \in {"planned", "unknown"}
      /\ pending' = pending \cup routed
  BY DEF Routed
<1>2. /\ Having("active")' = Having("active") /\ Having("arrived")' = Having("arrived")
      /\ Having("pending")' = Having("pending") \cup routed
      /\ Having("failed")' = Having("failed") \cup (S \ routed)
      /\ Having("failed") \cap (S \ routed) = {}
      /\ Having("pending") \cap routed = {}
  BY <1>1 DEF Having
<1>3. Known' = Known \cup S
  BY <1>1 DEF Known
<1>4. /\ IsFiniteSet(S) /\ IsFiniteSet(S \ routed) /\ IsFiniteSet(Known)
      /\ IsFiniteSet(Having("failed"))
  <2>1. /\ S \in SUBSET Agents /\ S \ routed \in SUBSET Agents /\ Known \in SUBSET Agents
        /\ Having("failed") \in SUBSET Agents
    BY DEF Known, Having
  <2> QED BY <2>1, SizeAssumption, FS_Subset
<1>5. /\ Cardinality(S) \in Nat /\ Cardinality(S \ routed) \in Nat /\ Cardinality(Known) \in Nat
      /\ Cardinality(Having("failed")) \in Nat
  BY <1>4, FS_CardinalityType
<1>6. Cardinality({}) = 0
  BY FS_EmptySet
<1>7. Cardinality(Having("failed")') = Cardinality(Having("failed")) + Cardinality(S \ routed)
  <2>1. Cardinality(Having("failed") \cup (S \ routed))
          = Cardinality(Having("failed")) + Cardinality(S \ routed) - Cardinality({})
    BY <1>2, <1>4, FS_Union
  <2>2. PICK m \in Nat, n \in Nat : m = Cardinality(Having("failed")) /\ n = Cardinality(S \ routed)
    BY <1>5
  <2>3. m + n - 0 = m + n
    OBVIOUS
  <2> QED BY <1>2, <1>6, <2>1, <2>2, <2>3
<1>8. Cardinality(Known') = Cardinality(Known) + added
  <2>1. CASE (\A a \in S : agent[a].status = "planned") /\ added = 0
    <3>1. Known \cup S = Known
      BY <2>1 DEF Known
    <3>2. PICK m \in Nat : m = Cardinality(Known)
      BY <1>5
    <3>3. m + 0 = m
      OBVIOUS
    <3>4. Cardinality(Known') = m
      BY <1>3, <3>1, <3>2
    <3> QED BY <2>1, <3>2, <3>3, <3>4
  <2>2. CASE (\A a \in S : agent[a].status = "unknown") /\ added = Cardinality(S)
    <3>1. Known \cap S = {}
      BY <2>2 DEF Known
    <3>2. Cardinality(Known \cup S) = Cardinality(Known) + Cardinality(S) - Cardinality({})
      BY <1>4, <3>1, FS_Union
    <3>3. PICK m \in Nat : m = Cardinality(Known)
      BY <1>5
    <3>4. m + added - 0 = m + added
      OBVIOUS
    <3> QED BY <1>3, <1>6, <2>2, <3>2, <3>3, <3>4
  <2> QED BY <2>1, <2>2
<1>9. Counted'
  BY <1>2, <1>7, <1>8 DEF IInv, Counted, Routed
<1>10. Underway'
  BY <1>2, UnderwayStays DEF IInv
<1>11. OccupancyMatches'
  <2>1. \A e \in Edges : On(e)' = On(e)
    <3>1. \A a \in Agents : agent'[a].status = "active" <=> agent[a].status = "active"
      BY <1>1
    <3>2. \A a \in Agents : agent[a].status = "active" => agent'[a] = agent[a]
      BY <1>1
    <3> QED BY <3>1, <3>2, OnStays
  <2> QED BY <2>1, LoadsStay DEF IInv
<1>12. InQueues'
  <2>1. routed \cap Range(retry) = {} /\ routed \cap Range(Line) = {}
    <3>1. Range(retry) \subseteq Having("pending") /\ Range(Line) \subseteq Having("pending")
      BY DEF IInv, InQueues
    <3> QED BY <1>2, <3>1
  <2>2. Having("pending") = (pending \cup Range(retry)) \cup Range(Line)
    BY DEF IInv, InQueues
  <2>3. Having("pending")' = (pending' \cup Range(retry)) \cup Range(Line)
    BY <1>1, <1>2, <2>2
  <2>4. /\ Distinct(retry)' /\ Distinct(Line)' /\ Range(retry)' = Range(retry)
        /\ Range(Line)' = Range(Line)
    BY DEF IInv, InQueues, Distinct
  <2>5. /\ pending' \cap Range(retry) = {} /\ pending' \cap Range(Line) = {}
        /\ Range(retry) \cap Range(Line) = {}
    BY <1>1, <2>1 DEF IInv, InQueues
  <2> HIDE DEF Line, Range, Distinct, Having
  <2> QED BY <2>3, <2>4, <2>5 DEF InQueues
<1> QED BY <1>9, <1>10, <1>11, <1>12 DEF AboutAgents

LEMMA DispatchKeeps ==
  ASSUME IInv, DispatchFleet
  PROVE  IInv'
<1>1. /\ at = "dispatch" /\ todo # <<>> /\ IsSeq(todo)
      /\ UNCHANGED <<cancelled, inbox, api, zones, clock, candidates, summary>>
  BY DEF IInv, TypeOK, DispatchFleet
<1>2. IsSeq(Tail(todo))
  BY <1>1, TakeFirst
<1>3. IsSeq(<<>>)
  BY EmptySequence
<1>4. CASE /\ todo' \in {<<>>, Tail(todo)} /\ UNCHANGED traffic
           /\ \/ UNCHANGED <<at, state>>
              \/ state' = "Failed" /\ at' = "record"
  <2>1. /\ at' \in {"dispatch", "record"} /\ IsSeq(todo')
    BY <1>1, <1>2, <1>3, <1>4
  <2>2. AboutAgents' /\ InQueues' /\ InLoops'
    BY <1>1, <1>4, <2>1, QuietStep DEF Over
  <2>3. Fresh'
    <3>1. InHand' = InHand /\ Fresh /\ UNCHANGED <<script, inbox, agent>>
      BY <1>1, <1>4, <2>1 DEF InHand, IInv, api, traffic
    <3> QED BY <1>1, <2>1, <3>1, FreshStays
  <2>4. TypeOK'
    BY <1>1, <1>4, <2>1 DEF IInv, TypeOK, api, traffic, clock
  <2>5. Ending' /\ SummaryAddsUp'
    <3>1. CASE UNCHANGED <<at, state>>
      BY <1>1, <1>4, <3>1, EndStays DEF IInv, api, traffic
    <3>2. CASE state' = "Failed" /\ at' = "record"
      <4>1. summary = NoSummary /\ outcome = "none" /\ UNCHANGED <<summary, outcome>>
        BY <1>1 DEF IInv, Ending, Over, api
      <4> QED BY <3>2, <4>1 DEF Ending, SummaryAddsUp, NoSummary, Over
    <3> QED BY <1>4, <3>1, <3>2
  <2> QED BY <2>2, <2>3, <2>4, <2>5, PartsSufficeNext
<1>5. CASE /\ RouteDrafts(Window(Head(todo)), 0, 0) /\ todo' = Tail(todo)
           /\ UNCHANGED <<at, state, retry, active, occupancy, exits>>
  <2>1. PICK S : S = Window(Head(todo))
    OBVIOUS
  <2>2. S \in SUBSET Agents /\ \A a \in S : agent[a].status = "planned"
    BY <2>1 DEF Window, Planned
  <2>3. RouteDrafts(S, 0, 0) /\ 0 \in Nat
    BY <1>5, <2>1
  <2>4. /\ agent' \in [Agents -> AgentRecord] /\ AllOnRoute'
        /\ \E routed \in SUBSET S : Routed(S, routed, 0)
    BY <2>2, <2>3, DraftsRouted
  <2>5. PICK routed \in SUBSET S : Routed(S, routed, 0)
    BY <2>4
  <2>6. at' = "dispatch" /\ Line' = Line /\ at \notin Over
    BY <1>1, <1>5 DEF Line, Over
  <2>7. AboutAgents' /\ InQueues'
    BY <1>5, <2>2, <2>4, <2>5, <2>6, RoutedKeeps
  <2>8. InLoops'
    BY <2>6, NoLoop
  <2>9. Fresh'
    <3>1. InHand' = InHand /\ Fresh /\ UNCHANGED <<script, inbox>>
      BY <1>1, <2>6 DEF InHand, IInv, api
    <3>2. \A a \in Agents : agent[a].status = "unknown" => agent'[a].status = "unknown"
      BY <2>2, <2>5 DEF Routed
    <3> QED BY <1>1, <2>6, <3>1, <3>2, FreshStays
  <2>10. TypeOK'
    <3>1. /\ pending' \subseteq Agents /\ report' \in [planned : Nat, failed : Nat, arrived : Nat]
      BY <2>2, <2>5 DEF IInv, TypeOK, Routed
    <3> QED BY <1>1, <1>2, <1>5, <2>4, <2>6, <3>1 DEF IInv, TypeOK, api, clock
  <2>11. Ending' /\ SummaryAddsUp'
    <3>1. ~Finished' /\ at' \notin Over
      BY <1>1, <1>5, <2>6 DEF IInv, Ending, Finished, Over
    <3> QED BY <1>1, <2>6, <3>1, NotEnding DEF IInv, api
  <2> QED BY <2>7, <2>8, <2>9, <2>10, <2>11, PartsSufficeNext
<1> QED BY <1>1, <1>4, <1>5 DEF DispatchFleet

-----------------------------------------------------------------------------
(* From the commands to the departures.                                    *)

\* The agents that are due join the retries in one line.
LEMMA LineForms ==
  ASSUME IInv, StartSpawning, at \notin Over, at # "spawn", UNCHANGED agent
  PROVE  /\ InQueues' /\ at' = "spawn" /\ IsSeq(todo') /\ Range(todo') \subseteq Agents
         /\ pending' \subseteq Agents /\ retry' = <<>>
<1>1. /\ at' = "spawn" /\ retry' = <<>> /\ pending' = pending \ Due
      /\ \E order \in SetToSeqs(Due) : todo' = retry \o order
  BY DEF StartSpawning
<1>2. Due \subseteq pending /\ pending \subseteq Agents /\ IsFiniteSet(Due)
  <2>1. Due \in SUBSET Agents /\ Due \subseteq pending /\ pending \subseteq Agents
    BY DEF Due, IInv, TypeOK
  <2> QED BY <2>1, SizeAssumption, FS_Subset
<1>3. PICK due : due = Due
  OBVIOUS
<1>4. PICK order \in SetToSeqs(due) : todo' = retry \o order
  BY <1>1, <1>3
<1>5. IsSeq(order) /\ Range(order) = due /\ Distinct(order)
  BY <1>2, <1>3, OrderOfSet
<1>6. /\ IsSeq(retry) /\ Distinct(retry) /\ pending \cap Range(retry) = {}
      /\ Range(retry) \subseteq Agents
  BY SeqOverRange DEF IInv, TypeOK, InQueues
<1>7. /\ IsSeq(todo') /\ Range(todo') = Range(retry) \cup due /\ Distinct(todo')
  <2>1. Range(retry) \cap Range(order) = {}
    BY <1>2, <1>3, <1>5, <1>6
  <2> QED BY <1>4, <1>5, <1>6, <2>1, OneAfterOther
<1>8. Having("pending") = pending \cup Range(retry)
  <2>1. Line = <<>> /\ Range(<<>>) = {}
    BY EmptySequence DEF Line
  <2> QED BY <2>1 DEF IInv, InQueues
<1>9. Line' = todo' /\ Having("pending")' = Having("pending")
  BY <1>1 DEF Line, Having
<1>10. InQueues'
  <2>1. /\ Distinct(retry)' /\ Range(retry)' = {}
    BY <1>1, EmptySequence DEF Distinct
  <2>2. Distinct(Line)' /\ Range(Line)' = Range(todo')
    BY <1>7, <1>9 DEF Distinct
  <2>3. pending' \cap Range(todo') = {}
    BY <1>1, <1>3, <1>6, <1>7
  <2>4. Having("pending")' = (pending' \cup {}) \cup Range(todo')
    BY <1>1, <1>2, <1>3, <1>7, <1>8, <1>9
  <2> HIDE DEF Range, Line, Having
  <2> QED BY <2>1, <2>2, <2>3, <2>4 DEF InQueues
<1> QED BY <1>1, <1>2, <1>6, <1>7, <1>3, <1>10

\* The engine goes on to the departures.
LEMMA SpawningStarts ==
  ASSUME IInv, StartSpawning, at \in {"dispatch", "apply"}, todo = <<>>, ~Finished',
         state' \in {"Pending", "Dispatching", "Running", "Paused", "Completed", "Cancelled",
                     "Failed"},
         nextDispatch' \in Nat,
         UNCHANGED <<cancelled, inbox, api, zones, agent, active, occupancy, exits, report,
                     tick, candidates, summary>>
  PROVE  IInv'
<1>1. /\ InQueues' /\ at' = "spawn" /\ IsSeq(todo') /\ Range(todo') \subseteq Agents
      /\ pending' \subseteq Agents /\ retry' = <<>>
  BY LineForms DEF Over
<1>2. AboutAgents'
  BY AgentsStay DEF IInv, AboutAgents
<1>3. InLoops'
  BY <1>1, NoLoop
<1>4. Fresh'
  <2>1. InHand' = InHand
    BY <1>1 DEF InHand
  <2> QED BY <1>1, <2>1, FreshStays DEF IInv, api
<1>5. Ending' /\ SummaryAddsUp'
  BY <1>1, NotEnding DEF IInv, Over, api
<1>6. TypeOK'
  <2>1. retry' \in Seq(Agents)
    BY <1>1, EmptySeq
  <2> QED BY <1>1, <2>1 DEF IInv, TypeOK, api
<1> QED BY <1>1, <1>2, <1>3, <1>4, <1>5, <1>6, PartsSufficeNext

LEMMA EndDispatchKeeps ==
  ASSUME IInv, EndDispatch
  PROVE  IInv'
<1>1. /\ at = "dispatch" /\ todo = <<>> /\ nextDispatch' \in Nat
      /\ UNCHANGED <<cancelled, inbox, api, zones, agent, active, occupancy, exits, report, tick,
                     candidates, summary>>
  BY TimeAssumption DEF IInv, TypeOK, EndDispatch
<1>2. ~Finished
  BY <1>1 DEF IInv, Ending
<1>3. CASE state' = "Running" /\ at' = "drain" /\ UNCHANGED <<todo, retry, pending>>
  <2>1. AboutAgents' /\ InQueues' /\ InLoops'
    BY <1>1, <1>3, QuietStep DEF Over, traffic
  <2>2. Fresh'
    <3>1. InHand' = InHand
      BY <1>1, <1>3 DEF InHand
    <3> QED BY <1>1, <1>3, <3>1, FreshStays DEF IInv, api
  <2>3. Ending' /\ SummaryAddsUp'
    BY <1>1, <1>3, NotEnding DEF IInv, Over, Finished, api
  <2>4. TypeOK'
    BY <1>1, <1>3 DEF IInv, TypeOK, api
  <2> QED BY <2>1, <2>2, <2>3, <2>4, PartsSufficeNext
<1>4. CASE StartSpawning /\ UNCHANGED state
  <2>1. ~Finished' /\ state' \in {"Pending", "Dispatching", "Running", "Paused", "Completed",
                                  "Cancelled", "Failed"}
    BY <1>2, <1>4 DEF IInv, TypeOK, Finished
  <2> QED BY <1>1, <1>4, <2>1, SpawningStarts
<1> QED BY <1>3, <1>4 DEF EndDispatch

LEMMA TakeInboxKeeps ==
  ASSUME IInv, TakeInbox
  PROVE  IInv'
<1>1. /\ at = "drain" /\ at' = "apply" /\ todo' = inbox /\ inbox' = <<>>
      /\ UNCHANGED <<state, cancelled, api, zones, traffic, clock, candidates, summary>>
  BY DEF TakeInbox
<1>2. AboutAgents' /\ InQueues' /\ InLoops'
  BY <1>1, QuietStep DEF Over
<1>3. Fresh'
  <2>1. InHand = <<>> /\ InHand' = inbox
    BY <1>1 DEF InHand
  <2>2. Spawning(InHand) = {}
    BY <2>1, NothingSpawned
  <2>3. /\ Spawning(script)' = Spawning(script) /\ Spawning(InHand)' = Spawning(inbox)
        /\ Spawning(inbox)' = Spawning(<<>>)
    BY <1>1, <2>1 DEF Spawning, api
  <2>4. /\ Once(script)' /\ Once(InHand)' /\ Once(inbox)'
    BY <1>1, <2>1, NothingSpawned DEF IInv, Fresh, Once, api
  <2>5. Announced' = Announced
    <3> HIDE DEF InHand, Spawning
    <3> QED BY <2>2, <2>3, NothingSpawned DEF Announced
  <2>6. /\ Spawning(script)' \cap Spawning(inbox)' = {}
        /\ Spawning(script)' \cap Spawning(InHand)' = {}
        /\ Spawning(inbox)' \cap Spawning(InHand)' = {}
    <3>1. Spawning(script) \cap Spawning(inbox) = {}
      BY DEF IInv, Fresh
    <3> QED BY <2>3, <3>1, NothingSpawned
  <2>7. Fresh /\ UNCHANGED agent /\ at' # "start"
    BY <1>1 DEF IInv, traffic
  <2> QED BY <2>4, <2>5, <2>6, <2>7, FreshMoves
<1>4. Ending' /\ SummaryAddsUp'
  <2>1. ~Finished'
    BY <1>1 DEF IInv, Ending, Finished
  <2> QED BY <1>1, <2>1, NotEnding DEF IInv, Over, api
<1>5. TypeOK'
  <2>1. IsSeq(inbox')
    BY <1>1, EmptySequence
  <2> QED BY <1>1, <2>1 DEF IInv, TypeOK, api, traffic, clock
<1> QED BY <1>2, <1>3, <1>4, <1>5, PartsSufficeNext

\* A command is taken out of the engine's hands.
LEMMA FreshApplied ==
  ASSUME IInv, at = "apply", at' = "apply", todo # <<>>, todo' = Tail(todo),
         UNCHANGED <<script, inbox>>,
         \A a \in Agents : agent[a].status = "unknown" =>
            agent'[a].status = "unknown" \/ Fleet[a] \in SpawnedBy(Head(todo))
  PROVE  Fresh' /\ IsSeq(todo') /\ SpawnedBy(Head(todo)) \subseteq Announced
<1>1. PICK c : c = Head(todo)
  OBVIOUS
<1>2. InHand = todo /\ InHand' = todo' /\ IsSeq(todo) /\ Fresh
  BY DEF IInv, TypeOK, InHand
<1>3. /\ Spawning(todo) = SpawnedBy(c) \cup Spawning(todo') /\ IsSeq(todo')
      /\ Once(todo') /\ SpawnedBy(c) \cap Spawning(todo') = {}
  <2>1. Once(todo)
    BY <1>2 DEF Fresh
  <2> QED BY <1>1, <1>2, <2>1, SpawningFirst, TakeFirst
<1>4. /\ Spawning(script)' = Spawning(script) /\ Spawning(inbox)' = Spawning(inbox)
      /\ Spawning(InHand)' = Spawning(todo') /\ Spawning(InHand) = Spawning(todo)
  BY <1>2 DEF Spawning
<1>5. Once(script)' /\ Once(inbox)' /\ Once(InHand)'
  BY <1>2, <1>3 DEF Fresh, Once
<1>6. /\ Spawning(script) \cap Spawning(inbox) = {}
      /\ Spawning(script) \cap Spawning(todo) = {}
      /\ Spawning(inbox) \cap Spawning(todo) = {}
  BY <1>2, <1>4 DEF Fresh
<1> HIDE DEF InHand, Spawning, SpawnedBy
<1>7. /\ Announced' \subseteq Announced /\ Announced' \cap SpawnedBy(c) = {}
      /\ SpawnedBy(c) \subseteq Announced
  BY <1>3, <1>4, <1>6 DEF Announced
<1>8. \A a \in Agents : agent[a].status = "unknown" /\ Fleet[a] \in Announced'
                          => agent'[a].status = "unknown"
  BY <1>1, <1>7
<1>9. Fresh'
  <2>1. /\ Spawning(script)' \cap Spawning(inbox)' = {}
        /\ Spawning(script)' \cap Spawning(InHand)' = {}
        /\ Spawning(inbox)' \cap Spawning(InHand)' = {}
    BY <1>3, <1>4, <1>6
  <2> HIDE DEF Announced
  <2> QED BY <1>2, <1>5, <1>7, <1>8, <2>1, FreshMoves
<1> QED BY <1>1, <1>3, <1>7, <1>9

LEMMA ApplyKeeps ==
  ASSUME IInv, Apply
  PROVE  IInv'
<1>1. PICK c : c = Head(todo)
  OBVIOUS
<1>2. /\ at = "apply" /\ at' = "apply" /\ todo # <<>> /\ todo' = Tail(todo)
      /\ UNCHANGED <<inbox, api, clock, candidates, summary>>
      /\ Pause(c) \/ Resume(c) \/ Cancel(c) \/ AddZone(c) \/ RemoveZone(c) \/ SpawnFleet(c)
  BY <1>1 DEF Apply
<1>3. ~Finished
  BY <1>2 DEF IInv, Ending
<1>4. /\ ~Finished' /\ cancelled' \in BOOLEAN
      /\ state' \in {"Pending", "Dispatching", "Running", "Paused", "Completed", "Cancelled",
                     "Failed"}
  BY <1>2, <1>3 DEF IInv, TypeOK, Pause, Resume, Cancel, AddZone, RemoveZone, SpawnFleet, Finished
<1>5. Ending' /\ SummaryAddsUp'
  BY <1>2, <1>4, NotEnding DEF IInv, Over, api
<1>6. CASE UNCHANGED traffic
  <2>1. AboutAgents' /\ InQueues' /\ InLoops'
    BY <1>2, <1>6, QuietStep DEF Over
  <2>2. Fresh' /\ IsSeq(todo')
    BY <1>2, <1>6, FreshApplied DEF api, traffic
  <2>3. TypeOK'
    BY <1>2, <1>4, <1>6, <2>2 DEF IInv, TypeOK, api, traffic, clock
  <2> QED BY <1>5, <2>1, <2>2, <2>3, PartsSufficeNext
<1>7. CASE /\ c.do = "spawn"
           /\ RouteDrafts(OfFleets(<<c.fleet>>), tick, Cardinality(OfFleets(<<c.fleet>>)))
           /\ UNCHANGED <<state, cancelled, zones, retry, active, occupancy, exits>>
  <2>1. PICK S : S = OfFleets(<<c.fleet>>)
    OBVIOUS
  <2>2. S \in SUBSET Agents /\ \A a \in S : Fleet[a] \in SpawnedBy(c)
    <3>1. Len(<<c.fleet>>) = 1 /\ <<c.fleet>>[1] = c.fleet
      OBVIOUS
    <3> QED BY <1>7, <2>1, <3>1 DEF OfFleets, SpawnedBy
  <2>3. PICK n \in Nat : n = Cardinality(S)
    BY <2>2, SizeAssumption, FS_Subset, FS_CardinalityType
  <2>4. RouteDrafts(S, tick, n) /\ tick \in Nat
    BY <1>7, <2>1, <2>3 DEF IInv, TypeOK
  <2>5. /\ agent' \in [Agents -> AgentRecord] /\ AllOnRoute'
        /\ \E routed \in SUBSET S : Routed(S, routed, n)
    BY <2>2, <2>4, DraftsRouted
  <2>6. PICK routed \in SUBSET S : Routed(S, routed, n)
    BY <2>5
  <2>7. \A a \in Agents : agent[a].status = "unknown" =>
            agent'[a].status = "unknown" \/ Fleet[a] \in SpawnedBy(Head(todo))
    BY <1>1, <2>2, <2>6 DEF Routed
  <2>8. Fresh' /\ IsSeq(todo') /\ SpawnedBy(c) \subseteq Announced
    BY <1>1, <1>2, <2>7, FreshApplied DEF api
  <2>9. \A a \in S : agent[a].status = "unknown"
    BY <2>2, <2>8 DEF IInv, Fresh
  <2>10. Line' = Line /\ at \notin Over /\ at' = "apply"
    BY <1>2 DEF Line, Over
  <2>11. AboutAgents' /\ InQueues'
    BY <1>7, <2>2, <2>3, <2>5, <2>6, <2>9, <2>10, RoutedKeeps
  <2>12. InLoops'
    BY <2>10, NoLoop
  <2>13. TypeOK'
    <3>1. /\ pending' \subseteq Agents /\ report' \in [planned : Nat, failed : Nat, arrived : Nat]
      BY <2>2, <2>6 DEF IInv, TypeOK, Routed
    <3> QED BY <1>2, <1>4, <1>7, <2>5, <2>8, <3>1 DEF IInv, TypeOK, api, clock
  <2> QED BY <1>5, <2>8, <2>11, <2>12, <2>13, PartsSufficeNext
<1> QED BY <1>2, <1>6, <1>7 DEF Pause, Resume, Cancel, AddZone, RemoveZone, SpawnFleet, traffic

LEMMA ProceedKeeps ==
  ASSUME IInv, Proceed
  PROVE  IInv'
<1>1. /\ at = "apply" /\ todo = <<>>
      /\ UNCHANGED <<shared, api, zones, agent, active, occupancy, exits, report, clock,
                     candidates, summary>>
  BY DEF Proceed
<1>2. ~Finished
  BY <1>1 DEF IInv, Ending
<1>3. CASE /\ at' \in {"finish", "drain", "dispatch"} /\ todo' \in {todo, Fleets}
           /\ UNCHANGED <<retry, pending>>
  <2>1. AboutAgents' /\ InQueues' /\ InLoops'
    BY <1>1, <1>3, QuietStep DEF Over, traffic
  <2>2. Fresh'
    <3>1. InHand' = <<>> /\ InHand = <<>>
      BY <1>1, <1>3 DEF InHand
    <3> QED BY <1>1, <1>3, <3>1, FreshStays DEF IInv, api, shared
  <2>3. Ending' /\ SummaryAddsUp'
    <3>1. ~Finished' /\ at \notin Over /\ at' \notin Over
      BY <1>1, <1>2, <1>3 DEF Finished, shared, Over
    <3> QED BY <1>1, <3>1, NotEnding DEF IInv, api
  <2>4. TypeOK'
    <3>1. IsSeq(todo')
      BY <1>3, ScriptAssumption DEF IInv, TypeOK, IsSeq
    <3> QED BY <1>1, <1>3, <3>1 DEF IInv, TypeOK, api, shared, clock
  <2> QED BY <2>1, <2>2, <2>3, <2>4, PartsSufficeNext
<1>4. CASE StartSpawning
  <2>1. ~Finished' /\ state' \in {"Pending", "Dispatching", "Running", "Paused", "Completed",
                                  "Cancelled", "Failed"} /\ nextDispatch' \in Nat
    BY <1>1, <1>2 DEF IInv, TypeOK, Finished, shared, clock
  <2> QED BY <1>1, <1>4, <2>1, SpawningStarts DEF shared, clock
<1> QED BY <1>3, <1>4 DEF Proceed

-----------------------------------------------------------------------------
(* Departures and moves.                                                   *)

LEMMA LoadsFollow ==
  ASSUME \A e \in Edges : occupancy'[e] = Load(On(e)')
  PROVE  OccupancyMatches'
<1>1. (\A e \in Edges : occupancy[e] = Load(On(e)))'
  BY DEF Load, Units
<1>2. (OccupancyMatches <=> \A e \in Edges : occupancy[e] = Load(On(e)))'
  BY LoadsByEdge, PTL
<1> QED BY <1>1, <1>2

\* A step of the loops of a tick.
LEMMA LoopStep ==
  ASSUME IInv, at \in {"spawn", "move", "reroute"},
         at' \in {"spawn", "move", "reroute", "drain", "finish"},
         UNCHANGED <<shared, api, zones, nextDispatch, summary>>,
         agent' \in [Agents -> AgentRecord], pending' \subseteq Agents, retry' \in Seq(Agents),
         active' \in Seq(Agents), occupancy' \in [Edges -> Int], exits' \in [Edges -> Int],
         report' \in [planned : Nat, failed : Nat, arrived : Nat], tick' \in Nat,
         IsSeq(todo'), Range(todo') \subseteq Agents, candidates' \in Seq(Agents),
         \A a \in Agents : agent[a].status = "unknown" => agent'[a].status = "unknown",
         AboutAgents', InQueues', InLoops'
  PROVE  IInv'
<1>1. Fresh'
  <2>1. InHand' = InHand
    BY DEF InHand
  <2> QED BY <2>1, FreshStays DEF IInv, api, shared
<1>2. Ending' /\ SummaryAddsUp'
  <2>1. ~Finished' /\ at \notin Over /\ at' \notin Over
    BY DEF IInv, Ending, Finished, shared, Over
  <2> QED BY <2>1, NotEnding DEF IInv, api
<1>3. TypeOK'
  BY DEF IInv, TypeOK, shared, api
<1> QED BY <1>1, <1>2, <1>3, PartsSufficeNext

\* Nobody changes status or place.
LEMMA PlacesStay ==
  ASSUME IInv, StatusesStay, AllOnRoute', at \notin Over, Line' = Line,
         \A a \in Agents : agent[a].status = "active" =>
            agent'[a].route[agent'[a].pos] = agent[a].route[agent[a].pos],
         UNCHANGED <<active, occupancy, report, pending, retry>>
  PROVE  AboutAgents' /\ InQueues' /\ Having("active")' = Having("active")
<1>1. \A status : Having(status)' = Having(status)
  BY DEF StatusesStay, Having
<1>2. Known' = Known
  BY KnownStays DEF StatusesStay
<1>3. Underway'
  BY <1>1, UnderwayStays DEF IInv
<1>4. Counted'
  BY <1>1, <1>2, CountedStays DEF IInv
<1>5. OccupancyMatches'
  <2>1. \A e \in Edges : On(e)' = On(e)
    BY OnStays DEF StatusesStay
  <2> QED BY <2>1, LoadsStay DEF IInv
<1>6. InQueues'
  BY <1>1, QueuesStay DEF IInv
<1> QED BY <1>1, <1>3, <1>4, <1>5, <1>6 DEF AboutAgents

\* An agent on the network: its record, its edge, and what is ahead of it.
LEMMA ActiveAgent ==
  ASSUME IInv, NEW a \in Having("active")
  PROVE  /\ a \in Agents /\ agent[a] \in AgentRecord /\ OnRoute(a, agent[a])
         /\ agent[a].route \in Seq(Edges) /\ agent[a].pos \in 1..Len(agent[a].route)
         /\ Len(agent[a].route) \in Nat /\ Edge(a) \in Edges
         /\ Edge(a) = agent[a].route[agent[a].pos] /\ a \in On(Edge(a))
         /\ ~OnLastEdge(a) => /\ agent[a].pos + 1 \in 1..Len(agent[a].route)
                              /\ Ahead(a) \in Edges
                              /\ Ahead(a) = agent[a].route[agent[a].pos + 1]
<1>1. a \in Agents /\ agent[a].status = "active" /\ agent[a] \in AgentRecord
  BY DEF Having, IInv, TypeOK
<1>2. OnRoute(a, agent[a])
  BY <1>1 DEF IInv, AllOnRoute
<1>3. PICK r \in AgentRecord : r = agent[a]
  BY <1>1
<1>4. PICK s, n : s = r.route /\ n = r.pos
  OBVIOUS
<1>5. s \in Seq(Edges) /\ Len(s) \in Nat /\ n \in 1..Len(s)
  BY <1>1, <1>2, <1>3, <1>4, LenProperties DEF OnRoute, AgentRecord
<1>6. \A i \in 1..Len(s) : s[i] \in Edges
  BY <1>5, ElementOfSeq
<1>7. ~(n >= Len(s)) => n + 1 \in 1..Len(s)
  BY <1>5
<1> QED BY <1>1, <1>2, <1>3, <1>4, <1>5, <1>6, <1>7 DEF Edge, OnLastEdge, Ahead, On

LEMMA TrySpawnKeeps ==
  ASSUME IInv, TrySpawn
  PROVE  IInv'
<1>1. PICK a : a = Head(todo)
  OBVIOUS
<1>2. /\ at = "spawn" /\ at' = "spawn" /\ todo # <<>> /\ todo' = Tail(todo)
      /\ UNCHANGED <<shared, api, zones, pending, exits, report, clock, candidates, summary>>
  BY DEF TrySpawn
<1>3. /\ IsSeq(todo') /\ a \in Range(todo) /\ Range(todo) = Range(todo') \cup {a}
      /\ Distinct(todo') /\ a \notin Range(todo') /\ Range(todo) \subseteq Agents
  BY <1>1, <1>2, TakeFirst DEF IInv, TypeOK, InQueues, Line
<1>4. /\ Having("pending") = (pending \cup Range(retry)) \cup Range(todo)
      /\ Distinct(retry) /\ pending \cap Range(retry) = {} /\ pending \cap Range(todo) = {}
      /\ Range(retry) \cap Range(todo) = {} /\ IsSeq(retry)
  BY <1>2, SeqOverRange DEF IInv, TypeOK, InQueues, Line, Over
<1>5. Line' = todo'
  BY <1>2 DEF Line
<1>6. InLoops'
  BY <1>2, NoLoop
<1>7. a \in Agents /\ agent[a].status = "pending" /\ Range(todo') \subseteq Agents
  BY <1>3, <1>4 DEF Having
<1>8. CASE retry' = Append(retry, a) /\ UNCHANGED <<agent, active, occupancy>>
  <2>1. /\ IsSeq(retry') /\ Range(retry') = Range(retry) \cup {a} /\ Distinct(retry')
    BY <1>3, <1>4, <1>8, AddLast
  <2>2. AboutAgents'
    BY <1>2, <1>8, AgentsStay DEF IInv, AboutAgents
  <2>3. InQueues'
    <3>1. Having("pending")' = (pending' \cup Range(retry')) \cup Range(todo')
      <4>1. Having("pending")' = Having("pending")
        BY <1>8 DEF Having
      <4> HIDE DEF Having
      <4> QED BY <1>2, <1>3, <1>4, <2>1, <4>1
    <3>2. /\ pending' \cap Range(retry') = {} /\ pending' \cap Range(todo') = {}
          /\ Range(retry') \cap Range(todo') = {}
      BY <1>2, <1>3, <1>4, <2>1
    <3>3. /\ Distinct(retry)' /\ Distinct(Line)' /\ Range(retry)' = Range(retry')
          /\ Range(Line)' = Range(todo')
      BY <1>3, <1>5, <2>1 DEF Distinct
    <3> HIDE DEF Range, Line, Having
    <3> QED BY <1>2, <3>1, <3>2, <3>3 DEF InQueues
  <2>4. retry' \in Seq(Agents)
    <3>1. Range(retry) \subseteq Agents
      BY SeqOverRange DEF IInv, TypeOK
    <3> QED BY <1>7, <2>1, <3>1, SeqOverRange
  <2> QED BY <1>2, <1>3, <1>6, <1>7, <1>8, <2>2, <2>3, <2>4, LoopStep
           DEF IInv, TypeOK, clock
<1>9. CASE /\ occupancy' = [occupancy EXCEPT ![agent[a].route[1]] = @ + Pcu[a]]
           /\ agent' = [agent EXCEPT ![a].status = "active", ![a].pos = 1,
                                     ![a].traj = <<agent[a].route[1]>>]
           /\ active' = Append(active, a)
           /\ UNCHANGED retry
  <2>1. PICK e : e = agent[a].route[1]
    OBVIOUS
  <2>2. PICK r \in AgentRecord : r = agent[a]
    BY <1>7 DEF IInv, TypeOK
  <2>3. OnRoute(a, r)
    BY <1>7, <2>2 DEF IInv, AllOnRoute
  <2>4. /\ r.route \in Seq(Edges) /\ r.route # <<>> /\ Len(r.route) \in Nat \ {0} /\ e \in Edges
        /\ e = r.route[1]
    <3>1. r.route \in Seq(Edges) /\ r.route # <<>>
      BY <1>7, <2>2, <2>3 DEF OnRoute, AgentRecord
    <3>2. Len(r.route) \in Nat \ {0}
      BY <3>1, EmptySeq
    <3>3. 1 \in 1..Len(r.route)
      BY <3>2
    <3>4. r.route[1] \in Edges
      BY <3>1, <3>3, ElementOfSeq
    <3> QED BY <2>1, <2>2, <3>1, <3>2, <3>4
  <2>5. PICK q \in AgentRecord :
           /\ OneAgent(a, q) /\ q.status = "active" /\ q.pos = 1 /\ q.traj = <<e>>
           /\ q.route = r.route
    BY <1>7, <1>9, <2>1, <2>2, <2>4, SpawnedFields DEF IInv
  <2>6. /\ agent'[a] = q /\ \A b \in Agents : b # a => agent'[b] = agent[b]
        /\ agent' \in [Agents -> AgentRecord]
    BY <1>7, <2>5, OthersStay DEF IInv
  <2>7. OnRoute(a, q)
    <3>1. SubSeq(q.route, 1, 1) = <<e>>
      <4>1. 1 \in 0..Len(q.route)
        BY <2>4, <2>5
      <4>2. /\ SubSeq(q.route, 1, 1) \in Seq(Edges) /\ Len(SubSeq(q.route, 1, 1)) = 1
            /\ SubSeq(q.route, 1, 1)[1] = e
        BY <2>4, <2>5, <4>1, Beginning
      <4>3. <<e>> \in Seq(Edges) /\ Len(<<e>>) = 1 /\ <<e>>[1] = e
        BY <2>4, FirstEdge
      <4>4. \A i \in 1..1 : SubSeq(q.route, 1, 1)[i] = <<e>>[i]
        BY <4>2, <4>3
      <4> QED BY <4>2, <4>3, <4>4, SeqEqual
    <3>2. q.pos <= Len(q.route)
      BY <2>4, <2>5
    <3> QED BY <2>3, <2>4, <2>5, <3>1, <3>2 DEF OnRoute, Unmoved
  <2>8. AllOnRoute'
    BY <1>7, <2>6, <2>7 DEF IInv, AllOnRoute
  <2>9. /\ Having("pending")' = Having("pending") \ {a}
        /\ Having("active")' = Having("active") \cup {a} /\ a \notin Having("active")
        /\ Having("failed")' = Having("failed") /\ Having("arrived")' = Having("arrived")
    BY <1>7, <2>5, <2>6 DEF Having
  <2>10. /\ Known' = Known
         /\ \A b \in Agents : agent[b].status = "unknown" => agent'[b].status = "unknown"
    BY <1>7, <2>5, <2>6 DEF Known
  <2>11. /\ active' \in Seq(Agents) /\ IsSeq(active') /\ Distinct(active')
         /\ Range(active') = Having("active")'
    <3>1. IsSeq(active) /\ Distinct(active) /\ Range(active) = Having("active")
          /\ Range(active) \subseteq Agents
      BY SeqOverRange DEF IInv, TypeOK, Underway
    <3>2. IsSeq(active') /\ Range(active') = Range(active) \cup {a} /\ Distinct(active')
      BY <1>9, <2>9, <3>1, AddLast
    <3> QED BY <1>7, <2>9, <3>1, <3>2, SeqOverRange
  <2>12. Underway'
    BY <2>11 DEF Underway, Distinct
  <2>13. Counted'
    BY <1>2, <2>9, <2>10, CountedStays DEF IInv
  <2>14. occupancy' \in [Edges -> Int] /\ Pcu[a] \in Nat
    <3>1. PICK n \in Nat : n = Pcu[a]
      BY <1>7, SizeAssumption
    <3>2. occupancy \in [Edges -> Int] /\ occupancy' = [occupancy EXCEPT ![e] = @ + n]
      BY <1>9, <2>1, <3>1 DEF IInv, TypeOK
    <3> QED BY <2>4, <3>1, <3>2
  <2>15. OccupancyMatches'
    <3>1. ASSUME NEW d \in Edges PROVE occupancy'[d] = Load(On(d)')
      <4>1. occupancy[d] = Load(On(d)) /\ On(d) \in SUBSET Agents /\ a \notin On(d)
        BY <1>7, LoadsByEdge DEF IInv, On
      <4>2. CASE d = e
        <5>1. On(d)' = On(d) \cup {a}
          BY <1>7, <2>4, <2>5, <2>6, <4>2 DEF On, Edge
        <5>2. occupancy'[d] = occupancy[d] + Pcu[a]
          BY <1>9, <2>1, <4>2 DEF IInv, TypeOK
        <5> QED BY <1>7, <4>1, <5>1, <5>2, LoadAdded
      <4>3. CASE d # e
        <5>1. On(d)' = On(d)
          BY <1>7, <2>4, <2>5, <2>6, <4>3 DEF On, Edge
        <5>2. occupancy'[d] = occupancy[d]
          BY <1>9, <2>1, <4>3 DEF IInv, TypeOK
        <5> QED BY <4>1, <5>1, <5>2
      <4> QED BY <4>2, <4>3
    <3> QED BY <3>1, LoadsFollow
  <2>16. InQueues'
    <3>1. Having("pending")' = (pending' \cup Range(retry')) \cup Range(todo')
      BY <1>2, <1>3, <1>4, <1>9, <2>9
    <3>2. /\ pending' \cap Range(retry') = {} /\ pending' \cap Range(todo') = {}
          /\ Range(retry') \cap Range(todo') = {}
      BY <1>2, <1>3, <1>4, <1>9
    <3>3. /\ Distinct(retry)' /\ Distinct(Line)' /\ Range(retry)' = Range(retry')
          /\ Range(Line)' = Range(todo')
      BY <1>3, <1>4, <1>5, <1>9 DEF Distinct
    <3> HIDE DEF Range, Line, Having
    <3> QED BY <1>2, <3>1, <3>2, <3>3 DEF InQueues
  <2>17. AboutAgents'
    BY <2>8, <2>12, <2>13, <2>15 DEF AboutAgents
  <2> QED BY <1>2, <1>3, <1>6, <1>7, <1>9, <2>6, <2>10, <2>11, <2>14, <2>16, <2>17, LoopStep
           DEF IInv, TypeOK, clock
<1> QED BY <1>1, <1>8, <1>9 DEF TrySpawn

LEMMA StartMovingKeeps ==
  ASSUME IInv, StartMoving
  PROVE  IInv'
<1>1. /\ at = "spawn" /\ todo = <<>> /\ at' = "move" /\ todo' = active /\ candidates' = <<>>
      /\ exits' = [e \in Edges |-> 0]
      /\ UNCHANGED <<shared, api, zones, agent, pending, retry, active, occupancy, report, clock,
                     summary>>
  BY DEF StartMoving
<1>2. Line' = Line /\ StatusesStay /\ at \notin Over /\ AllOnRoute'
  BY <1>1 DEF Line, StatusesStay, Over, IInv, AllOnRoute
<1>3. AboutAgents' /\ InQueues' /\ Having("active")' = Having("active")
  BY <1>1, <1>2, PlacesStay
<1>4. /\ IsSeq(active) /\ Range(active) \subseteq Agents /\ Distinct(active)
      /\ Range(active) = Having("active")
  BY SeqOverRange DEF IInv, TypeOK, Underway
<1>5. InLoops'
  <2>1. Range(candidates') = {}
    BY <1>1, EmptySequence
  <2>2. Distinct(todo') /\ Range(todo') = Having("active")'
    BY <1>1, <1>3, <1>4
  <2>3. /\ Distinct(todo)' /\ Range(todo)' = Range(todo') /\ Range(candidates)' = Range(candidates')
    BY <2>2 DEF Distinct
  <2> HIDE DEF Having, Range
  <2> QED BY <1>1, <2>1, <2>2, <2>3 DEF InLoops
<1>6. exits' \in [Edges -> Int] /\ candidates' \in Seq(Agents)
  BY <1>1, EmptySeq
<1> QED BY <1>1, <1>3, <1>4, <1>5, <1>6, LoopStep DEF IInv, TypeOK, clock

\* The end of an agent's move: whether it asks for another route.
LEMMA JudgeLoops ==
  ASSUME IInv, NEW a, Moving(a), NEW force, Judge(a, force), at' = at,
         Having("active")' = Having("active")
  PROVE  /\ InLoops' /\ candidates' \in Seq(Agents) /\ IsSeq(todo')
         /\ Range(todo') \subseteq Agents
<1>1. at = "move" /\ todo # <<>> /\ a = Head(todo) /\ todo' = Tail(todo) /\ IsSeq(todo)
  BY DEF Moving, Judge, IInv, TypeOK
<1>2. candidates' = Append(candidates, a) \/ candidates' = candidates
  BY DEF Judge
<1>3. /\ Distinct(todo) /\ Range(todo) \subseteq Having("active")
      /\ Range(candidates) \subseteq Having("active")
      /\ Range(candidates) \cap Range(todo) = {}
  BY <1>1 DEF IInv, InLoops
<1>4. /\ IsSeq(todo') /\ a \in Range(todo) /\ Range(todo) = Range(todo') \cup {a}
      /\ Distinct(todo') /\ a \notin Range(todo')
  BY <1>1, <1>3, TakeFirst
<1>5. IsSeq(candidates) /\ Range(candidates) \subseteq Agents
  BY SeqOverRange DEF IInv, TypeOK
<1>6. IsSeq(candidates') /\ Range(candidates') \subseteq Range(candidates) \cup {a}
  <2>1. PICK b, s : b = a /\ s = candidates
    OBVIOUS
  <2>2. IsSeq(s)
    BY <1>5, <2>1
  <2>3. IsSeq(Append(s, b)) /\ Range(Append(s, b)) = Range(s) \cup {b}
    BY <2>2, AddLast
  <2> HIDE DEF Range
  <2> QED BY <1>2, <1>5, <2>1, <2>3
<1>7. Having("active") \subseteq Agents
  BY DEF Having
<1>8. InLoops'
  <2>1. /\ Range(todo') \subseteq Having("active")' /\ Range(candidates') \subseteq Having("active")'
        /\ Range(candidates') \cap Range(todo') = {}
    BY <1>3, <1>4, <1>6
  <2>2. Distinct(todo)' /\ Range(todo)' = Range(todo') /\ Range(candidates)' = Range(candidates')
    BY <1>4 DEF Distinct
  <2> HIDE DEF Having, Range
  <2> QED BY <1>1, <2>1, <2>2 DEF InLoops
<1>9. candidates' \in Seq(Agents)
  <2>1. Range(candidates') \subseteq Agents
    BY <1>3, <1>4, <1>5, <1>6, <1>7
  <2> QED BY <1>6, <2>1, SeqOverRange
<1> QED BY <1>3, <1>4, <1>7, <1>8, <1>9

\* The agent whose turn it is.
LEMMA ItsTurn ==
  ASSUME IInv, NEW a, Moving(a)
  PROVE  a \in Having("active") /\ at = "move" /\ Line = <<>> /\ at \notin Over
<1>1. at = "move" /\ todo # <<>> /\ a = Head(todo) /\ IsSeq(todo)
  BY DEF Moving, IInv, TypeOK
<1>2. Head(todo) \in Range(todo)
  BY <1>1, TakeFirst
<1> QED BY <1>1, <1>2 DEF IInv, InLoops, Line, Over

LEMMA StopKeeps ==
  ASSUME IInv, NEW a \in Agents, Stop(a)
  PROVE  IInv'
<1>1. /\ Moving(a) /\ Judge(a, agent[a].force)
      /\ UNCHANGED <<shared, api, zones, traffic, clock, at, summary>>
  BY DEF Stop
<1>2. at = "move" /\ Line' = Line /\ at \notin Over
  BY <1>1, ItsTurn DEF Line
<1>3. StatusesStay /\ AllOnRoute'
  BY <1>1 DEF StatusesStay, IInv, AllOnRoute, traffic
<1>4. AboutAgents' /\ InQueues' /\ Having("active")' = Having("active")
  BY <1>1, <1>2, <1>3, PlacesStay DEF traffic
<1>5. /\ InLoops' /\ candidates' \in Seq(Agents) /\ IsSeq(todo')
      /\ Range(todo') \subseteq Agents
  BY <1>1, <1>4, JudgeLoops
<1> QED BY <1>1, <1>2, <1>4, <1>5, LoopStep DEF IInv, TypeOK, clock, traffic

LEMMA WaitKeeps ==
  ASSUME IInv, NEW a \in Agents, Wait(a)
  PROVE  IInv'
<1>1. PICK force : force = (agent[a].force \/ Closed(Fleet[a], Ahead(a)))
  OBVIOUS
<1>2. /\ Moving(a) /\ Judge(a, force)
      /\ agent' = [agent EXCEPT ![a].end = TRUE, ![a].force = force]
      /\ UNCHANGED <<shared, api, zones, pending, retry, active, occupancy, exits, report, clock,
                     at, summary>>
  BY <1>1 DEF Wait
<1>3. force \in BOOLEAN
  BY <1>1
<1>4. at = "move" /\ Line' = Line /\ at \notin Over
  BY <1>2, ItsTurn DEF Line
<1>5. PICK q \in AgentRecord :
           /\ OneAgent(a, q) /\ q.status = agent[a].status /\ q.route = agent[a].route
           /\ q.pos = agent[a].pos /\ q.traj = agent[a].traj
  BY <1>2, <1>3, WaitingFields DEF IInv
<1>6. /\ agent'[a] = q /\ \A b \in Agents : b # a => agent'[b] = agent[b]
      /\ agent' \in [Agents -> AgentRecord]
  BY <1>5, OthersStay DEF IInv
<1>7. OnRoute(a, q)
  <2>1. OnRoute(a, agent[a])
    BY DEF IInv, AllOnRoute
  <2> QED BY <1>5, <2>1 DEF OnRoute
<1>8. StatusesStay /\ AllOnRoute'
  BY <1>5, <1>6, <1>7 DEF StatusesStay, IInv, AllOnRoute
<1>9. AboutAgents' /\ InQueues' /\ Having("active")' = Having("active")
  <2>1. \A b \in Agents : agent[b].status = "active" =>
            agent'[b].route[agent'[b].pos] = agent[b].route[agent[b].pos]
    BY <1>5, <1>6
  <2> QED BY <1>2, <1>4, <1>8, <2>1, PlacesStay
<1>10. /\ InLoops' /\ candidates' \in Seq(Agents) /\ IsSeq(todo')
       /\ Range(todo') \subseteq Agents
  BY <1>2, <1>9, JudgeLoops
<1>11. \A b \in Agents : agent[b].status = "unknown" => agent'[b].status = "unknown"
  BY <1>8 DEF StatusesStay
<1> QED BY <1>2, <1>4, <1>6, <1>9, <1>10, <1>11, LoopStep DEF IInv, TypeOK, clock

LEMMA ArriveKeeps ==
  ASSUME IInv, NEW a \in Agents, Arrive(a)
  PROVE  IInv'
<1>1. /\ Moving(a) /\ todo' = Tail(todo)
      /\ occupancy' = [occupancy EXCEPT ![Edge(a)] = @ - Pcu[a]]
      /\ agent' = [agent EXCEPT ![a].status = "arrived"]
      /\ \E i \in 1..Len(active) : active[i] = a /\ active' = RemoveAt(active, i)
      /\ report' = [report EXCEPT !.arrived = @ + 1]
      /\ UNCHANGED <<shared, api, zones, pending, retry, exits, clock, at, candidates, summary>>
  BY DEF Arrive
<1>2. a \in Having("active") /\ at = "move" /\ Line' = Line /\ at \notin Over
  BY <1>1, ItsTurn DEF Line
<1>3. /\ OnRoute(a, agent[a]) /\ Edge(a) \in Edges /\ a \in On(Edge(a))
      /\ agent[a].status = "active"
  BY <1>2, ActiveAgent DEF Having
<1>4. PICK q \in AgentRecord :
           /\ OneAgent(a, q) /\ q.status = "arrived" /\ q.route = agent[a].route
           /\ q.pos = agent[a].pos /\ q.traj = agent[a].traj
  BY <1>1, ArrivedFields DEF IInv
<1>5. /\ agent'[a] = q /\ \A b \in Agents : b # a => agent'[b] = agent[b]
      /\ agent' \in [Agents -> AgentRecord]
  BY <1>4, OthersStay DEF IInv
<1>6. AllOnRoute'
  <2>1. OnRoute(a, q)
    BY <1>3, <1>4 DEF OnRoute, Unmoved
  <2> QED BY <1>5, <2>1 DEF IInv, AllOnRoute
<1>7. /\ Having("pending")' = Having("pending") /\ Having("failed")' = Having("failed")
      /\ Having("active")' = Having("active") \ {a}
      /\ Having("arrived")' = Having("arrived") \cup {a} /\ a \notin Having("arrived")
  BY <1>3, <1>4, <1>5 DEF Having
<1>8. /\ Known' = Known
      /\ \A b \in Agents : agent[b].status = "unknown" => agent'[b].status = "unknown"
  BY <1>3, <1>4, <1>5 DEF Known
<1>9. /\ active' \in Seq(Agents) /\ IsSeq(active') /\ Distinct(active')
      /\ Range(active') = Having("active")'
  <2>1. IsSeq(active) /\ Distinct(active) /\ Range(active) = Having("active")
        /\ Range(active) \subseteq Agents
    BY SeqOverRange DEF IInv, TypeOK, Underway
  <2>2. PICK i \in 1..Len(active) : active[i] = a /\ active' = RemoveAt(active, i)
    BY <1>1
  <2>3. IsSeq(active') /\ Distinct(active') /\ Range(active') = Range(active) \ {a}
    BY <2>1, <2>2, TakeOut
  <2> QED BY <1>7, <2>1, <2>3, SeqOverRange
<1>10. Underway'
  BY <1>9 DEF Underway, Distinct
<1>11. /\ report'.arrived = report.arrived + 1 /\ report'.planned = report.planned
       /\ report'.failed = report.failed
       /\ report' \in [planned : Nat, failed : Nat, arrived : Nat]
  <2>1. PICK r \in [planned : Nat, failed : Nat, arrived : Nat] : r = report
    BY DEF IInv, TypeOK
  <2>2. PICK n \in Nat : n = r.arrived + 1
    OBVIOUS
  <2>3. report' = [r EXCEPT !.arrived = n]
    BY <1>1, <2>1, <2>2
  <2>4. [r EXCEPT !.arrived = n] \in [planned : Nat, failed : Nat, arrived : Nat]
    BY Zenon
  <2>5. /\ [r EXCEPT !.arrived = n].arrived = n /\ [r EXCEPT !.arrived = n].planned = r.planned
        /\ [r EXCEPT !.arrived = n].failed = r.failed
    OBVIOUS
  <2> QED BY <2>1, <2>2, <2>3, <2>4, <2>5
<1>12. Counted'
  <2>1. IsFiniteSet(Having("arrived"))
    <3>1. Having("arrived") \in SUBSET Agents
      BY DEF Having
    <3> QED BY <3>1, SizeAssumption, FS_Subset
  <2>2. Cardinality(Having("arrived") \cup {a}) = Cardinality(Having("arrived")) + 1
    BY <1>7, <2>1, FS_AddElement
  <2> QED BY <1>7, <1>8, <1>11, <2>2 DEF IInv, Counted
<1>13. PICK n \in Nat : n = Pcu[a]
  BY SizeAssumption
<1>14. PICK x \in Edges : x = Edge(a)
  BY <1>3
<1>15. /\ occupancy' \in [Edges -> Int]
       /\ \A d \in Edges : occupancy'[d] = IF d = x THEN occupancy[d] - n ELSE occupancy[d]
  <2>1. occupancy \in [Edges -> Int] /\ occupancy' = [occupancy EXCEPT ![x] = @ - n]
    BY <1>1, <1>13, <1>14 DEF IInv, TypeOK
  <2> QED BY <2>1
<1>16. OccupancyMatches'
  <2>1. ASSUME NEW d \in Edges PROVE occupancy'[d] = Load(On(d)')
    <3>1. occupancy[d] = Load(On(d)) /\ On(d) \in SUBSET Agents
      BY LoadsByEdge DEF IInv, On
    <3>2. On(d)' = On(d) \ {a}
      BY <1>4, <1>5 DEF On, Edge
    <3>3. CASE d = x
      <4>1. a \in On(d)
        BY <1>3, <1>14, <3>3
      <4> QED BY <1>13, <1>15, <3>1, <3>2, <3>3, <4>1, LoadRemoved
    <3>4. CASE d # x
      <4>1. On(d) \ {a} = On(d)
        BY <1>14, <3>4 DEF On
      <4> QED BY <1>15, <3>1, <3>2, <3>4, <4>1
    <3> QED BY <3>3, <3>4
  <2> QED BY <2>1, LoadsFollow
<1>17. InQueues'
  BY <1>1, <1>2, <1>7, QueuesStay DEF IInv
<1>18. /\ InLoops' /\ IsSeq(todo') /\ Range(todo') \subseteq Agents
  <2>1. todo # <<>> /\ a = Head(todo) /\ IsSeq(todo)
    BY <1>1 DEF Moving, IInv, TypeOK
  <2>2. /\ Distinct(todo) /\ Range(todo) \subseteq Having("active")
        /\ Range(candidates) \subseteq Having("active")
        /\ Range(candidates) \cap Range(todo) = {}
    BY <1>2 DEF IInv, InLoops
  <2>3. /\ IsSeq(todo') /\ a \in Range(todo) /\ Range(todo) = Range(todo') \cup {a}
        /\ Distinct(todo') /\ a \notin Range(todo')
    BY <1>1, <2>1, <2>2, TakeFirst
  <2>4. /\ Range(todo') \subseteq Having("active")' /\ Range(candidates') \subseteq Having("active")'
        /\ Range(candidates') \cap Range(todo') = {}
    BY <1>1, <1>7, <2>2, <2>3
  <2>5. Distinct(todo)' /\ Range(todo)' = Range(todo') /\ Range(candidates)' = Range(candidates')
    BY <2>3 DEF Distinct
  <2>6. Having("active") \subseteq Agents
    BY DEF Having
  <2>7. InLoops'
    <3> HIDE DEF Having, Range
    <3> QED BY <1>1, <1>2, <2>4, <2>5 DEF InLoops
  <2> QED BY <2>2, <2>3, <2>6, <2>7
<1>19. AboutAgents'
  BY <1>6, <1>10, <1>12, <1>16 DEF AboutAgents
<1> QED BY <1>1, <1>2, <1>5, <1>8, <1>9, <1>11, <1>15, <1>17, <1>18, <1>19, LoopStep
        DEF IInv, TypeOK, clock

LEMMA CrossKeeps ==
  ASSUME IInv, NEW a \in Agents, Cross(a)
  PROVE  IInv'
<1>1. /\ Moving(a) /\ ~OnLastEdge(a)
      /\ occupancy' = [[occupancy EXCEPT ![Edge(a)] = @ - Pcu[a]] EXCEPT ![Ahead(a)] = @ + Pcu[a]]
      /\ exits' = [exits EXCEPT ![Edge(a)] = @ + Pcu[a]]
      /\ agent' = [agent EXCEPT ![a].pos = @ + 1, ![a].end = FALSE,
                                ![a].traj = Append(@, Ahead(a))]
      /\ UNCHANGED <<shared, api, zones, pending, retry, active, report, clock, at, todo,
                     candidates, summary>>
  BY DEF Cross
<1>2. a \in Having("active") /\ at = "move" /\ Line' = Line /\ at \notin Over
  BY <1>1, ItsTurn DEF Line
<1>3. PICK r \in AgentRecord : r = agent[a]
  BY DEF IInv, TypeOK
<1>4. /\ OnRoute(a, r) /\ r.route \in Seq(Edges) /\ r.pos \in 1..Len(r.route)
      /\ Len(r.route) \in Nat /\ r.pos + 1 \in 1..Len(r.route)
      /\ Edge(a) \in Edges /\ Ahead(a) \in Edges
      /\ Edge(a) = r.route[r.pos] /\ Ahead(a) = r.route[r.pos + 1] /\ a \in On(Edge(a))
      /\ r.status = "active"
  BY <1>1, <1>2, <1>3, ActiveAgent DEF Having
<1>5. PICK x \in Edges, y \in Edges, n \in Nat : x = Edge(a) /\ y = Ahead(a) /\ n = Pcu[a]
  BY <1>4, SizeAssumption
<1>6. PICK q \in AgentRecord :
           /\ OneAgent(a, q) /\ q.status = agent[a].status /\ q.route = agent[a].route
           /\ q.pos = agent[a].pos + 1 /\ q.traj = Append(agent[a].traj, y)
  BY <1>1, <1>5, CrossedFields DEF IInv
<1>7. /\ agent'[a] = q /\ \A b \in Agents : b # a => agent'[b] = agent[b]
      /\ agent' \in [Agents -> AgentRecord]
  BY <1>6, OthersStay DEF IInv
<1>8. OnRoute(a, q)
  <2>1. PICK s, m : s = r.route /\ m = r.pos
    OBVIOUS
  <2>2. s \in Seq(Edges) /\ m \in 0..(Len(s) - 1) /\ m + 1 <= Len(s) /\ m + 1 >= 1
    BY <1>4, <2>1
  <2>3. Append(SubSeq(s, 1, m), s[m + 1]) = SubSeq(s, 1, m + 1)
    BY <2>2, DrivenOn
  <2>4. r.traj = SubSeq(s, 1, m) /\ y = s[m + 1]
    BY <1>4, <1>5, <2>1 DEF OnRoute
  <2>5. q.traj = SubSeq(q.route, 1, q.pos) /\ q.route = s /\ q.pos = m + 1 /\ q.status = "active"
    BY <1>3, <1>4, <1>6, <2>1, <2>3, <2>4
  <2> QED BY <1>4, <2>1, <2>2, <2>5 DEF OnRoute, Unmoved
<1>9. StatusesStay /\ AllOnRoute'
  BY <1>6, <1>7, <1>8 DEF StatusesStay, IInv, AllOnRoute
<1>10. \A status : Having(status)' = Having(status)
  BY <1>9 DEF StatusesStay, Having
<1>11. Known' = Known
  BY <1>9, KnownStays DEF StatusesStay
<1>12. occupancy \in [Edges -> Int]
  BY DEF IInv, TypeOK
<1>13. occupancy' = [[occupancy EXCEPT ![x] = @ - n] EXCEPT ![y] = @ + n]
  BY <1>1, <1>5
<1>14. /\ occupancy' \in [Edges -> Int]
       /\ \A d \in Edges : d # x /\ d # y => occupancy'[d] = occupancy[d]
       /\ x # y => occupancy'[x] = occupancy[x] - n /\ occupancy'[y] = occupancy[y] + n
       /\ x = y => occupancy'[x] = (occupancy[x] - n) + n
  BY <1>12, <1>13
<1>15. /\ a \in On(x) /\ \A d \in Edges : a \in On(d) => d = x
       /\ \A d \in Edges : On(d)' = IF d = y THEN On(d) \cup {a} ELSE On(d) \ {a}
  <2>1. a \in On(x) /\ \A d \in Edges : a \in On(d) => d = x
    BY <1>4, <1>5 DEF On
  <2>2. \A b \in Agents : b # a => agent'[b] = agent[b]
    BY <1>7
  <2>3. agent'[a].status = "active" /\ agent'[a].route[agent'[a].pos] = y
    BY <1>3, <1>4, <1>5, <1>6, <1>7
  <2>4. ASSUME NEW d \in Edges
        PROVE  On(d)' = IF d = y THEN On(d) \cup {a} ELSE On(d) \ {a}
    BY <2>2, <2>3 DEF On, Edge
  <2> QED BY <2>1, <2>4
<1>16. OccupancyMatches'
  <2>1. ASSUME NEW d \in Edges PROVE occupancy'[d] = Load(On(d)')
    <3>1. occupancy[d] = Load(On(d)) /\ On(d) \in SUBSET Agents /\ occupancy[d] \in Int
      BY <1>12, LoadsByEdge DEF IInv, On
    <3>2. CASE d = x /\ d = y
      <4>1. On(d)' = On(d)
        BY <1>15, <3>2
      <4>2. occupancy'[d] = occupancy[d]
        BY <1>14, <3>1, <3>2
      <4> QED BY <3>1, <4>1, <4>2
    <3>3. CASE d = x /\ d # y
      <4>1. On(d)' = On(d) \ {a} /\ a \in On(d) /\ occupancy'[d] = occupancy[d] - n
        BY <1>14, <1>15, <3>3
      <4> QED BY <1>5, <3>1, <4>1, LoadRemoved
    <3>4. CASE d # x /\ d = y
      <4>1. On(d)' = On(d) \cup {a} /\ a \notin On(d) /\ occupancy'[d] = occupancy[d] + n
        BY <1>14, <1>15, <3>4
      <4> QED BY <1>5, <3>1, <4>1, LoadAdded
    <3>5. CASE d # x /\ d # y
      <4>1. On(d)' = On(d) /\ occupancy'[d] = occupancy[d]
        BY <1>14, <1>15, <3>5
      <4> QED BY <3>1, <4>1
    <3> QED BY <3>2, <3>3, <3>4, <3>5
  <2> QED BY <2>1, LoadsFollow
<1>17. AboutAgents'
  <2>1. Underway'
    BY <1>1, <1>10, UnderwayStays DEF IInv
  <2>2. Counted'
    BY <1>1, <1>10, <1>11, CountedStays DEF IInv
  <2> QED BY <1>9, <1>16, <2>1, <2>2 DEF AboutAgents
<1>18. InQueues' /\ InLoops'
  BY <1>1, <1>2, <1>10, QueuesStay, LoopsStay DEF IInv
<1>19. exits' \in [Edges -> Int]
  <2>1. exits \in [Edges -> Int] /\ exits' = [exits EXCEPT ![x] = @ + n]
    BY <1>1, <1>5 DEF IInv, TypeOK
  <2> QED BY <2>1
<1>20. \A b \in Agents : agent[b].status = "unknown" => agent'[b].status = "unknown"
  BY <1>9 DEF StatusesStay
<1> QED BY <1>1, <1>2, <1>7, <1>14, <1>17, <1>18, <1>19, <1>20, LoopStep DEF IInv, TypeOK, clock

-----------------------------------------------------------------------------
(* Reroutes, and the end of a tick.                                        *)

LEMMA StartReroutingKeeps ==
  ASSUME IInv, StartRerouting
  PROVE  IInv'
<1>1. /\ at = "move" /\ todo = <<>> /\ at' = "reroute" /\ candidates' = <<>>
      /\ todo' = SubSeq(candidates, 1, IF Len(candidates) < Budget THEN Len(candidates) ELSE Budget)
      /\ UNCHANGED <<shared, api, zones, traffic, clock, summary>>
  BY DEF StartRerouting
<1>2. Line' = Line /\ StatusesStay /\ at \notin Over /\ AllOnRoute'
  BY <1>1 DEF Line, StatusesStay, Over, IInv, AllOnRoute, traffic
<1>3. AboutAgents' /\ InQueues' /\ Having("active")' = Having("active")
  BY <1>1, <1>2, PlacesStay DEF traffic
<1>4. todo' \in Seq(Agents) /\ Range(todo') \subseteq Range(candidates)
  <2>1. PICK n : n = IF Len(candidates) < Budget THEN Len(candidates) ELSE Budget
    OBVIOUS
  <2>2. candidates \in Seq(Agents) /\ Len(candidates) \in Nat /\ Budget \in Nat
    BY TimeAssumption, LenProperties DEF IInv, TypeOK
  <2>3. n \in 0..Len(candidates)
    BY <2>1, <2>2
  <2>4. todo' = SubSeq(candidates, 1, n)
    BY <1>1, <2>1
  <2> QED BY <2>2, <2>3, <2>4, Beginning
<1>5. Range(candidates) \subseteq Having("active")
  BY <1>1 DEF IInv, InLoops
<1>6. InLoops'
  BY <1>1, <1>3, <1>4, <1>5 DEF InLoops
<1>7. IsSeq(todo') /\ Range(todo') \subseteq Agents /\ candidates' \in Seq(Agents)
  BY <1>1, <1>4, SeqOverRange, EmptySeq
<1> QED BY <1>1, <1>3, <1>6, <1>7, LoopStep DEF IInv, TypeOK, clock, traffic

LEMMA RerouteKeeps ==
  ASSUME IInv, Reroute
  PROVE  IInv'
<1>1. PICK a :
        /\ a = Head(todo)
        /\ \E route \in {agent[a].route} \cup {Splice(a, p) : p \in Detours(a)} :
             agent' = [agent EXCEPT ![a].force = FALSE, ![a].last = tick, ![a].route = route]
  BY Zenon DEF Reroute
<1>2. PICK route \in {agent[a].route} \cup {Splice(a, p) : p \in Detours(a)} :
        agent' = [agent EXCEPT ![a].force = FALSE, ![a].last = tick, ![a].route = route]
  BY <1>1
<1>3. /\ at = "reroute" /\ todo # <<>> /\ todo' = Tail(todo)
      /\ UNCHANGED <<shared, api, zones, pending, retry, active, occupancy, exits, report, clock,
                     at, candidates, summary>>
  BY DEF Reroute
<1>4. /\ IsSeq(todo') /\ a \in Range(todo) /\ Range(todo) = Range(todo') \cup {a}
      /\ Range(todo) \subseteq Having("active")
  BY <1>1, <1>3, TakeFirst DEF IInv, TypeOK, InLoops
<1>5. PICK r \in AgentRecord : r = agent[a]
  BY <1>4 DEF Having, IInv, TypeOK
<1>6. /\ a \in Agents /\ OnRoute(a, r) /\ r.route \in Seq(Edges) /\ r.pos \in 1..Len(r.route)
      /\ Edge(a) = r.route[r.pos] /\ r.status = "active"
  BY <1>4, <1>5, ActiveAgent DEF Having
<1>7. /\ route \in Seq(Edges) /\ route # <<>> /\ r.pos <= Len(route)
      /\ route[r.pos] = r.route[r.pos]
      /\ SubSeq(route, 1, r.pos) = r.traj /\ Driveable(route) /\ Last(route) = Last(r.route)
  <2>1. CASE route = r.route
    <3>1. r.route # <<>> /\ r.pos <= Len(r.route)
      <4>1. Len(r.route) \in Nat
        BY <1>6, LenProperties
      <4>2. Len(r.route) # 0
        BY <1>6, <4>1
      <4> QED BY <1>6, <4>1, <4>2, EmptySeq
    <3> QED BY <1>6, <2>1, <3>1 DEF OnRoute
  <2>2. CASE route # r.route
    <3>1. PICK p \in Detours(a) : route = Splice(a, p)
      BY <1>2, <1>5, <2>2
    <3>2. /\ p \in Paths /\ p[1] = r.route[r.pos] /\ Last(p) = Last(r.route)
      BY <1>5, <1>6, <3>1 DEF Detours, Goal
    <3>3. route = SubSeq(r.route, 1, r.pos - 1) \o p
      BY <1>5, <3>1 DEF Splice
    <3>4. r.pos >= 1
      BY <1>6
    <3> QED BY <1>6, <3>2, <3>3, <3>4, SplicedOnRoute
  <2> QED BY <2>1, <2>2
<1>8. PICK q \in AgentRecord :
           /\ OneAgent(a, q) /\ q.status = r.status /\ q.route = route
           /\ q.pos = r.pos /\ q.traj = r.traj
  BY <1>2, <1>5, <1>6, <1>7, ReroutedFields DEF IInv
<1>9. /\ agent'[a] = q /\ \A b \in Agents : b # a => agent'[b] = agent[b]
      /\ agent' \in [Agents -> AgentRecord]
  BY <1>6, <1>8, OthersStay DEF IInv
<1>10. OnRoute(a, q)
  <2>1. r.route # <<>>
    <3>1. Len(r.route) # 0
      BY <1>6, LenProperties
    <3> QED BY <1>6, <3>1, EmptySeq
  <2> QED BY <1>6, <1>7, <1>8, <2>1 DEF OnRoute, Unmoved
<1>11. StatusesStay /\ AllOnRoute'
  BY <1>5, <1>8, <1>9, <1>10 DEF StatusesStay, IInv, AllOnRoute
<1>12. AboutAgents' /\ InQueues' /\ Having("active")' = Having("active")
  <2>1. \A b \in Agents : agent[b].status = "active" =>
            agent'[b].route[agent'[b].pos] = agent[b].route[agent[b].pos]
    BY <1>5, <1>7, <1>8, <1>9
  <2>2. Line' = Line /\ at \notin Over
    BY <1>3 DEF Line, Over
  <2> QED BY <1>3, <1>11, <2>1, <2>2, PlacesStay
<1>13. InLoops'
  BY <1>3, <1>4, <1>12 DEF InLoops
<1>14. Range(todo') \subseteq Agents
  BY <1>4 DEF Having
<1>15. \A b \in Agents : agent[b].status = "unknown" => agent'[b].status = "unknown"
  BY <1>11 DEF StatusesStay
<1> QED BY <1>3, <1>4, <1>9, <1>12, <1>13, <1>14, <1>15, LoopStep DEF IInv, TypeOK, clock

LEMMA EndTickKeeps ==
  ASSUME IInv, EndTick
  PROVE  IInv'
<1>1. /\ at = "reroute" /\ todo = <<>> /\ at' \in {"finish", "drain"}
      /\ tick' = tick \/ tick' = tick + 1
      /\ UNCHANGED <<shared, api, zones, traffic, nextDispatch, todo, candidates, summary>>
  BY DEF EndTick
<1>2. Line' = Line /\ StatusesStay /\ at \notin Over /\ AllOnRoute'
  BY <1>1 DEF Line, StatusesStay, Over, IInv, AllOnRoute, traffic
<1>3. AboutAgents' /\ InQueues'
  BY <1>1, <1>2, PlacesStay DEF traffic
<1>4. InLoops'
  BY <1>1, NoLoop
<1>5. tick' \in Nat
  BY <1>1 DEF IInv, TypeOK
<1> QED BY <1>1, <1>3, <1>4, <1>5, LoopStep DEF IInv, TypeOK, traffic

-----------------------------------------------------------------------------
(* The end of a run.                                                       *)

LEMMA FinishKeeps ==
  ASSUME IInv, Finish
  PROVE  IInv'
<1> DEFINE never == Left
<1>1. /\ at = "finish" /\ at' = "publish"
      /\ agent' = [a \in Agents |->
           IF a \in never THEN [agent[a] EXCEPT !.status = "never"] ELSE agent[a]]
      /\ UNCHANGED <<shared, api, zones, pending, retry, active, occupancy, exits, report, clock,
                     todo, candidates>>
      /\ summary' = [total |-> Cardinality({a \in Agents :
                                agent'[a].status \notin {"unknown", "failed"}}),
                     arrived |-> report.arrived,
                     unfinished |-> Len(active), failed |-> report.failed,
                     never |-> Cardinality({a \in Agents : agent'[a].status = "never"}),
                     cancelled |-> cancelled]
  BY Zenon DEF Finish
<1>2. /\ never = Having("pending") \cup Having("planned")
  <2>1. Line = <<>> /\ at \notin Over
    BY <1>1 DEF Line, Over
  <2>2. Range(Line) = {}
    BY <2>1, EmptySequence
  <2>3. Having("pending") = pending \cup Range(retry)
    BY <2>1, <2>2 DEF IInv, InQueues
  <2> QED BY <2>3 DEF Left, Planned, Having
<1> HIDE DEF never
<1>3. ASSUME NEW a \in Agents
      PROVE  /\ agent'[a] \in AgentRecord
             /\ agent'[a].status = IF a \in never THEN "never" ELSE agent[a].status
             /\ agent'[a].route = agent[a].route /\ agent'[a].pos = agent[a].pos
             /\ agent'[a].traj = agent[a].traj
  <2>1. PICK r \in AgentRecord : r = agent[a]
    BY DEF IInv, TypeOK
  <2>2. CASE a \in never
    <3>1. PICK q : q = [r EXCEPT !.status = "never"]
      OBVIOUS
    <3>2. /\ q \in AgentRecord /\ q.status = "never"
          /\ q.route = r.route /\ q.pos = r.pos /\ q.traj = r.traj
      BY <3>1, StatusFields DEF Statuses
    <3>3. agent'[a] = q
      BY <1>1, <2>1, <2>2, <3>1
    <3> QED BY <2>1, <2>2, <3>2, <3>3
  <2>3. CASE a \notin never
    BY <1>1, <2>1, <2>3
  <2> QED BY <2>2, <2>3
<1>4. agent' \in [Agents -> AgentRecord]
  <2>1. agent' = [a \in Agents |-> agent'[a]]
    BY <1>1
  <2> QED BY <1>3, <2>1
<1>5. AllOnRoute'
  <2>1. ASSUME NEW a \in Agents PROVE OnRoute(a, agent'[a])
    <3>1. OnRoute(a, agent[a])
      BY DEF IInv, AllOnRoute
    <3>2. /\ agent'[a].status = "pending" => agent[a].status = "pending"
          /\ agent'[a].status \in Unmoved => agent[a].status = agent'[a].status
          /\ agent'[a].status \in {"active", "arrived"} => agent[a].status = agent'[a].status
      BY <1>3 DEF Unmoved
    <3> QED BY <1>3, <3>1, <3>2 DEF OnRoute
  <2> QED BY <2>1 DEF AllOnRoute
<1>6. /\ Having("active")' = Having("active") /\ Having("failed")' = Having("failed")
      /\ Having("arrived")' = Having("arrived") /\ Known' = Known
  BY <1>2, <1>3 DEF Having, Known
<1>7. \A a \in Agents : agent'[a].status \in
        {"unknown", "failed", "active", "arrived", "never"}
  <2>1. ASSUME NEW a \in Agents
        PROVE  agent'[a].status \in {"unknown", "failed", "active", "arrived", "never"}
    <3>1. agent'[a].status \in Statuses
      BY <1>3 DEF AgentRecord
    <3>2. agent[a].status \in {"pending", "planned"} => a \in never
      BY <1>2 DEF Having
    <3> QED BY <1>3, <3>1, <3>2 DEF Statuses
  <2> QED BY <2>1
<1>8. AboutAgents'
  <2>1. Underway'
    BY <1>1, <1>6, UnderwayStays DEF IInv
  <2>2. Counted'
    BY <1>1, <1>6, CountedStays DEF IInv
  <2>3. OccupancyMatches'
    <3>1. \A a \in Agents : agent'[a].status = "active" <=> agent[a].status = "active"
      BY <1>6 DEF Having
    <3>2. \A e \in Edges : On(e)' = On(e)
      BY <1>3, <3>1, OnStays
    <3> QED BY <1>1, <3>2, LoadsStay DEF IInv
  <2> QED BY <1>5, <2>1, <2>2, <2>3 DEF AboutAgents
<1>9. InQueues'
  <2>1. Line' = Line /\ at' \in Over
    BY <1>1 DEF Line, Over
  <2>2. /\ Distinct(retry)' /\ Distinct(Line)' /\ Range(retry)' = Range(retry)
        /\ Range(Line)' = Range(Line) /\ pending' = pending
    BY <1>1, <2>1 DEF IInv, InQueues, Distinct
  <2>3. /\ pending \cap Range(retry) = {} /\ pending \cap Range(Line) = {}
        /\ Range(retry) \cap Range(Line) = {}
    BY DEF IInv, InQueues
  <2> HIDE DEF Range, Line
  <2> QED BY <2>1, <2>2, <2>3 DEF InQueues
<1>10. InLoops'
  BY <1>1, NoLoop
<1>11. Fresh'
  <2>1. InHand' = InHand
    BY <1>1 DEF InHand
  <2>2. \A a \in Agents : agent[a].status = "unknown" => agent'[a].status = "unknown"
    BY <1>2, <1>3 DEF Having
  <2> QED BY <1>1, <2>1, <2>2, FreshStays DEF IInv, shared, api
<1>12. Ending'
  <2>1. ~Finished' /\ outcome' = "none"
    BY <1>1 DEF IInv, Ending, Finished, shared, api
  <2> QED BY <1>1, <2>1 DEF Ending, Over
<1>13. TypeOK'
  BY <1>1, <1>4 DEF IInv, TypeOK, shared, api, clock
<1>14. SummaryAddsUp'
  <2> DEFINE Counts == {a \in Agents : agent'[a].status \notin {"unknown", "failed"}}
             A == Having("arrived")
             U == Having("active")
             N == {a \in Agents : agent'[a].status = "never"}
             F == Having("failed")
  <2>1. /\ Counts = (A \cup U) \cup N /\ A \cap U = {} /\ (A \cup U) \cap N = {}
        /\ Known = Counts \cup F /\ Counts \cap F = {}
    <3>1. A = Having("arrived")' /\ U = Having("active")' /\ F = Having("failed")' /\ Known = Known'
      BY <1>6
    <3>2. Counts = (Having("arrived")' \cup Having("active")') \cup N
      BY <1>7 DEF Having
    <3>3. A \cap U = {} /\ (Having("arrived")' \cup Having("active")') \cap N = {}
      BY DEF Having
    <3>4. Known' = Counts \cup Having("failed")' /\ Counts \cap Having("failed")' = {}
      BY DEF Having, Known
    <3> HIDE DEF Counts, A, U, N, F
    <3> QED BY <3>1, <3>2, <3>3, <3>4
  <2>2. /\ IsFiniteSet(A) /\ IsFiniteSet(U) /\ IsFiniteSet(N) /\ IsFiniteSet(F)
        /\ IsFiniteSet(Counts)
    <3>1. /\ A \in SUBSET Agents /\ U \in SUBSET Agents /\ N \in SUBSET Agents
          /\ F \in SUBSET Agents /\ Counts \in SUBSET Agents
      BY DEF Having
    <3> HIDE DEF Counts, A, U, N, F
    <3> QED BY <3>1, SizeAssumption, FS_Subset
  <2>3. summary'.arrived = Cardinality(A)
    BY <1>1 DEF IInv, Counted
  <2>4. summary'.unfinished = Cardinality(U)
    <3>1. IsSeq(active) /\ Distinct(active) /\ Range(active) = U
      BY SeqOverRange DEF IInv, TypeOK, Underway
    <3>2. Cardinality(Range(active)) = Len(active)
      BY <3>1, LengthCounts
    <3> QED BY <1>1, <3>1, <3>2
  <2>5. /\ summary'.total = Cardinality(Counts) /\ summary'.never = Cardinality(N)
        /\ summary'.failed = Cardinality(F) /\ report'.planned = Cardinality(Known)
    BY <1>1 DEF IInv, Counted
  <2> HIDE DEF Counts, A, U, N, F
  <2>6. PICK a, u, n, f, t : /\ a = Cardinality(A) /\ u = Cardinality(U) /\ n = Cardinality(N)
                             /\ f = Cardinality(F) /\ t = Cardinality(Counts)
    OBVIOUS
  <2>7. a \in Nat /\ u \in Nat /\ n \in Nat /\ f \in Nat /\ t \in Nat
    BY <2>2, <2>6, FS_CardinalityType
  <2>8. Cardinality({}) = 0
    BY FS_EmptySet
  <2>9. IsFiniteSet(A \cup U) /\ Cardinality(A \cup U) = a + u
    <3>1. /\ IsFiniteSet(A \cup U)
          /\ Cardinality(A \cup U) = Cardinality(A) + Cardinality(U) - Cardinality({})
      BY <2>1, <2>2, FS_Union
    <3>2. a + u - 0 = a + u
      BY <2>7
    <3> QED BY <2>6, <2>8, <3>1, <3>2
  <2>10. t = (a + u) + n
    <3>1. Cardinality((A \cup U) \cup N) = Cardinality(A \cup U) + Cardinality(N) - Cardinality({})
      BY <2>1, <2>2, <2>9, FS_Union
    <3>2. (a + u) + n - 0 = (a + u) + n
      BY <2>7
    <3> QED BY <2>1, <2>6, <2>8, <2>9, <3>1, <3>2
  <2>11. Cardinality(Known) = t + f
    <3>1. Cardinality(Counts \cup F)
            = Cardinality(Counts) + Cardinality(F) - Cardinality(Counts \cap F)
      BY <2>2, FS_Union
    <3>2. t + f - 0 = t + f
      BY <2>7
    <3>3. Counts \cap F = {} /\ Known = Counts \cup F
      BY <2>1
    <3> QED BY <2>6, <2>8, <3>1, <3>2, <3>3
  <2> QED BY <2>3, <2>4, <2>5, <2>6, <2>10, <2>11 DEF SummaryAddsUp
<1> QED BY <1>8, <1>9, <1>10, <1>11, <1>12, <1>13, <1>14, PartsSufficeNext

\* The result is published, and found by the callers.
LEMMA LastStepsKeep ==
  ASSUME IInv, Publish \/ Record
  PROVE  IInv'
<1>1. /\ at \in {"publish", "record"} /\ at' \in {"record", "done"}
      /\ UNCHANGED <<cancelled, inbox, listed, script, zones, traffic, clock, todo, candidates,
                     summary>>
  BY DEF Publish, Record, shared, api
<1>2. AboutAgents' /\ InQueues' /\ InLoops'
  BY <1>1, QuietStep DEF Over
<1>3. Fresh'
  <2>1. InHand' = InHand /\ at' # "start"
    BY <1>1 DEF InHand
  <2> QED BY <1>1, <2>1, FreshStays DEF IInv, traffic
<1>4. SummaryAddsUp'
  BY <1>1 DEF IInv, SummaryAddsUp, NoSummary, traffic
<1>5. Ending' /\ state' \in {"Completed", "Cancelled", "Failed"} /\ outcome' \in {"none", "ok", "err"}
  <2>1. CASE Publish
    <3>1. at = "publish" /\ at' = "record" /\ UNCHANGED <<outcome, summary>>
          /\ state' = IF summary.cancelled THEN "Cancelled" ELSE "Completed"
      BY <2>1 DEF Publish, api
    <3>2. outcome = "none"
      BY <3>1 DEF IInv, Ending
    <3> QED BY <3>1, <3>2 DEF Ending, Over
  <2>2. CASE Record
    <3>1. at = "record" /\ at' = "done" /\ UNCHANGED <<state, summary>>
          /\ outcome' = IF state = "Failed" THEN "err" ELSE "ok"
      BY <2>2 DEF Record, shared
    <3>2. state = "Failed" \/ state = IF summary.cancelled THEN "Cancelled" ELSE "Completed"
      BY <3>1 DEF IInv, Ending
    <3> QED BY <3>1, <3>2 DEF Ending, Over
  <2> QED BY <2>1, <2>2
<1>6. TypeOK'
  BY <1>1, <1>5 DEF IInv, TypeOK, traffic, clock
<1> QED BY <1>2, <1>3, <1>4, <1>5, <1>6, PartsSufficeNext

-----------------------------------------------------------------------------
(* The invariant.                                                          *)

LEMMA InitHolds ==
  ASSUME Init
  PROVE  IInv
<1>1. /\ state = "Pending" /\ cancelled = FALSE /\ inbox = <<>> /\ listed = TRUE
      /\ script \in Scripts /\ outcome = "none"
      /\ agent = [a \in Agents |-> NewAgent("unknown")]
      /\ pending = {} /\ retry = <<>> /\ active = <<>>
      /\ occupancy = [e \in Edges |-> 0] /\ exits = [e \in Edges |-> 0]
      /\ report = [planned |-> 0, failed |-> 0, arrived |-> 0]
      /\ at = "start" /\ tick = 0 /\ nextDispatch = 0
      /\ todo = <<>> /\ candidates = <<>> /\ summary = NoSummary
  BY DEF Init
<1>2. PICK r : r = NewAgent("unknown")
  OBVIOUS
<1>3. r \in AgentRecord /\ r.status = "unknown" /\ r.route = <<>> /\ r.pos = 0 /\ r.traj = <<>>
  BY <1>2, NewAgentFields DEF Statuses
<1>4. agent \in [Agents -> AgentRecord] /\ \A a \in Agents : agent[a] = r
  BY <1>1, <1>2, <1>3
<1>5. IsSeq(script)
  BY <1>1, ScriptAssumption DEF IsSeq
<1>6. TypeOK
  <2>1. IsSeq(inbox) /\ IsSeq(todo) /\ retry \in Seq(Agents) /\ active \in Seq(Agents)
        /\ candidates \in Seq(Agents) /\ Range(todo) \subseteq Agents
    BY <1>1, EmptySequence, EmptySeq
  <2>2. occupancy \in [Edges -> Int] /\ exits \in [Edges -> Int]
        /\ report \in [planned : Nat, failed : Nat, arrived : Nat]
    BY <1>1
  <2> QED BY <1>1, <1>4, <1>5, <2>1, <2>2 DEF TypeOK
<1>7. AllOnRoute
  <2>1. ASSUME NEW a \in Agents PROVE OnRoute(a, r)
    BY <1>3, NewOnRoute
  <2> QED BY <1>4, <2>1 DEF AllOnRoute
<1>8. \A status : status # "unknown" => Having(status) = {}
  BY <1>3, <1>4 DEF Having
<1>9. Range(<<>>) = {} /\ Distinct(<<>>)
  BY EmptySequence
<1>10. InQueues
  <2>1. Line = <<>>
    BY <1>1 DEF Line
  <2> HIDE DEF Range, Distinct, Having
  <2> QED BY <1>1, <1>8, <1>9, <2>1 DEF InQueues
<1>11. Underway
  <2> HIDE DEF Range, Distinct, Having
  <2> QED BY <1>1, <1>8, <1>9 DEF Underway
<1>12. InLoops
  BY <1>1 DEF InLoops
<1>13. Fresh
  <2>1. InHand = <<>>
    BY <1>1 DEF InHand
  <2>2. /\ \A i, j \in 1..Len(script) :
            script[i].do = "spawn" =>
              /\ script[i].fleet \notin Range(Fleets)
              /\ script[j].do = "spawn" /\ script[j].fleet = script[i].fleet => j = i
    BY <1>1, ScriptAssumption
  <2>3. Once(script)
    BY <2>2 DEF Once
  <2>4. Spawning(script) \cap Range(Fleets) = {}
    BY <2>2 DEF Spawning
  <2>5. Announced = Spawning(script)
    BY <1>1, <2>1, NothingSpawned DEF Announced
  <2>6. \A a \in Agents : agent[a].status = "unknown"
    BY <1>3, <1>4
  <2> HIDE DEF Spawning, Once, Range, Announced
  <2> QED BY <1>1, <2>1, <2>3, <2>4, <2>5, <2>6, NothingSpawned DEF Fresh
<1>14. Counted
  <2>1. Known = {} /\ Having("failed") = {} /\ Having("arrived") = {}
    BY <1>3, <1>4, <1>8 DEF Known
  <2>2. Cardinality({}) = 0
    BY FS_EmptySet
  <2> QED BY <1>1, <2>1, <2>2 DEF Counted
<1>15. OccupancyMatches
  <2>1. ASSUME NEW e \in Edges PROVE occupancy[e] = Load(On(e))
    <3>1. On(e) = {}
      BY <1>3, <1>4 DEF On
    <3> QED BY <1>1, <3>1, NoLoad
  <2> QED BY <2>1, LoadsByEdge
<1>16. Ending /\ SummaryAddsUp
  BY <1>1 DEF Ending, SummaryAddsUp, Finished, Over
<1> QED BY <1>6, <1>7, <1>10, <1>11, <1>12, <1>13, <1>14, <1>15, <1>16 DEF IInv

LEMMA EngineKeeps ==
  ASSUME IInv, Engine
  PROVE  IInv'
<1>1. CASE Move
  BY <1>1, StopKeeps, ArriveKeeps, WaitKeeps, CrossKeeps DEF Move
<1> QED BY <1>1, PlanKeeps, DispatchKeeps, EndDispatchKeeps, TakeInboxKeeps, ApplyKeeps,
           ProceedKeeps, TrySpawnKeeps, StartMovingKeeps, StartReroutingKeeps, RerouteKeeps,
           EndTickKeeps, FinishKeeps, LastStepsKeep DEF Engine

LEMMA StutterKeeps ==
  ASSUME IInv, UNCHANGED vars
  PROVE  IInv'
<1>1. /\ UNCHANGED <<state, cancelled, inbox, listed, script, outcome>>
      /\ UNCHANGED <<zones, traffic, clock, at, todo, candidates, summary>>
  BY DEF vars, shared, api
<1>2. InHand' = InHand /\ IsSeq(inbox') /\ IsSeq(script')
  BY <1>1 DEF InHand, IInv, TypeOK
<1>3. Fresh'
  BY <1>1, <1>2, FreshStays DEF IInv, traffic
<1> QED BY <1>1, <1>2, <1>3, CallersStep DEF IInv, TypeOK

\* In every reachable state the agents are where the engine's queues say, its
\* counters count them, and the routes and loads are as the parts of IInv say.
THEOREM Invariant == Spec => []IInv
<1>1. Init => IInv
  BY InitHolds
<1>2. IInv /\ [Next]_vars => IInv'
  BY EngineKeeps, ControlKeeps, DeleteKeeps, StutterKeeps DEF Next
<1> QED BY <1>1, <1>2, PTL DEF Spec

\* The occupancy array is the load of the agents under way, edge by edge:
\* no spawn, crossing, arrival or reroute leaves a unit behind on an edge, for
\* any network, any sizes of agents and any zones.
THEOREM LoadsMatch == Spec => []OccupancyMatches
<1>1. IInv => OccupancyMatches
  BY DEF IInv
<1> QED BY <1>1, Invariant, PTL

\* However often an agent is rerouted, its trajectory is the part of its route
\* that it drove, the route follows turns, and it ends at its destination.
THEOREM RoutesStayWhole == Spec => []RoutesHold
<1>1. IInv => RoutesHold
  <2>1. ASSUME IInv, NEW a \in Agents
        PROVE  LET r == agent[a].route IN
               /\ agent[a].traj = SubSeq(r, 1, agent[a].pos)
               /\ Driveable(r)
               /\ r # <<>> => \E first \in Routes[a] : first # <<>> /\ Last(first) = Goal(a)
    <3>1. OnRoute(a, agent[a])
      BY <2>1 DEF IInv, AllOnRoute
    <3> QED BY <3>1 DEF OnRoute, Goal
  <2> QED BY <2>1 DEF RoutesHold
<1> QED BY <1>1, Invariant, PTL

\* A run that is cut short, cancelled, failed or done accounts for every agent
\* it ever planned, and publishes what it stores.
THEOREM EndsAddUp == Spec => []EndAddsUp
<1>1. IInv => EndAddsUp
  <2>1. IInv => OutcomeAgrees
    BY DEF IInv, TypeOK, Ending, OutcomeAgrees
  <2> QED BY <2>1 DEF IInv, EndAddsUp
<1> QED BY <1>1, Invariant, PTL

-----------------------------------------------------------------------------
(* Closures.                                                               *)

NoClosedEdgeEntered ==
  \A a \in Agents : agent'[a].traj # agent[a].traj => ~Closed(Fleet[a], Last(agent'[a].traj))

\* Planning and routing agents moves none of them.
LEMMA DispatchMovesNobody ==
  ASSUME IInv, Plan \/ DispatchFleet \/ Apply
  PROVE  \A a \in Agents : agent'[a].traj = agent[a].traj
<1>1. CASE Plan
  <2>1. ASSUME NEW a \in Agents PROVE agent'[a].traj = agent[a].traj
    <3>1. CASE a \in OfFleets(Fleets)
      <4>1. PICK d \in Nat : d = Depart[a]
        BY TimeAssumption
      <4>2. agent'[a] = [NewAgent("planned") EXCEPT !.depart = d]
        BY <1>1, <3>1, <4>1 DEF Plan
      <4>3. agent'[a].traj = <<>>
        BY <4>2, PlannedFields
      <4>4. OnRoute(a, agent[a]) /\ agent[a].status = "unknown" /\ agent[a] \in AgentRecord
        BY <1>1 DEF IInv, AllOnRoute, Fresh, Plan, TypeOK
      <4> QED BY <4>3, <4>4, UnmovedTrajectory DEF Unmoved
    <3>2. CASE a \notin OfFleets(Fleets)
      BY <1>1, <3>2 DEF Plan
    <3> QED BY <3>1, <3>2
  <2> QED BY <2>1
<1>2. ASSUME NEW S \in SUBSET Agents, NEW from \in Nat, NEW added \in Nat,
             RouteDrafts(S, from, added), \A a \in S : agent[a].status \in Unmoved
      PROVE  \A a \in Agents : agent'[a].traj = agent[a].traj
  <2>1. PICK routed \in SUBSET S : Routed(S, routed, added)
    BY <1>2, DraftsRouted
  <2>2. ASSUME NEW a \in Agents PROVE agent'[a].traj = agent[a].traj
    <3>1. CASE a \in S
      <4>1. agent'[a].traj = <<>>
        BY <2>1, <3>1 DEF Routed
      <4>2. OnRoute(a, agent[a]) /\ agent[a].status \in Unmoved /\ agent[a] \in AgentRecord
        BY <1>2, <3>1 DEF IInv, AllOnRoute, TypeOK
      <4> QED BY <4>1, <4>2, UnmovedTrajectory
    <3>2. CASE a \notin S
      BY <2>1, <3>2 DEF Routed
    <3> QED BY <3>1, <3>2
  <2> QED BY <2>2
<1>3. CASE DispatchFleet
  <2>1. CASE UNCHANGED traffic
    BY <2>1 DEF traffic
  <2>2. CASE RouteDrafts(Window(Head(todo)), 0, 0)
    <3>1. PICK S : S = Window(Head(todo))
      OBVIOUS
    <3>2. S \in SUBSET Agents /\ \A a \in S : agent[a].status \in Unmoved
      BY <3>1 DEF Window, Planned, Unmoved
    <3>3. RouteDrafts(S, 0, 0) /\ 0 \in Nat
      BY <2>2, <3>1
    <3> QED BY <1>2, <3>2, <3>3
  <2> QED BY <1>3, <2>1, <2>2 DEF DispatchFleet
<1>4. CASE Apply
  <2>1. PICK c : c = Head(todo)
    OBVIOUS
  <2>2. /\ at = "apply" /\ todo # <<>>
        /\ Pause(c) \/ Resume(c) \/ Cancel(c) \/ AddZone(c) \/ RemoveZone(c) \/ SpawnFleet(c)
    BY <1>4, <2>1 DEF Apply
  <2>3. CASE UNCHANGED agent
    BY <2>3
  <2>4. CASE /\ c.do = "spawn"
             /\ RouteDrafts(OfFleets(<<c.fleet>>), tick, Cardinality(OfFleets(<<c.fleet>>)))
    <3>1. PICK S : S = OfFleets(<<c.fleet>>)
      OBVIOUS
    <3>2. S \in SUBSET Agents /\ \A a \in S : Fleet[a] = c.fleet
      <4>1. Len(<<c.fleet>>) = 1 /\ <<c.fleet>>[1] = c.fleet
        OBVIOUS
      <4> QED BY <3>1, <4>1 DEF OfFleets
    <3>3. PICK n \in Nat : n = Cardinality(S)
      BY <3>2, SizeAssumption, FS_Subset, FS_CardinalityType
    <3>4. RouteDrafts(S, tick, n) /\ tick \in Nat
      BY <2>4, <3>1, <3>3 DEF IInv, TypeOK
    <3>5. c.fleet \in Announced
      <4>1. InHand = todo /\ IsSeq(todo)
        BY <2>2 DEF InHand, IInv, TypeOK
      <4>2. c.fleet \in Spawning(todo)
        BY <2>1, <2>2, <2>4, <4>1, SpawningFirst DEF SpawnedBy
      <4> QED BY <4>1, <4>2 DEF Announced
    <3>6. \A a \in S : agent[a].status \in Unmoved
      BY <3>2, <3>5 DEF IInv, Fresh, Unmoved
    <3> QED BY <1>2, <3>2, <3>4, <3>6
  <2> QED BY <2>2, <2>3, <2>4
        DEF Pause, Resume, Cancel, AddZone, RemoveZone, SpawnFleet, traffic
<1> QED BY <1>1, <1>3, <1>4

LEMMA StepsObeyClosures ==
  ASSUME IInv, [Next]_vars
  PROVE  NoClosedEdgeEntered
<1>1. CASE UNCHANGED agent
  BY <1>1 DEF NoClosedEdgeEntered
<1>2. CASE Plan \/ DispatchFleet \/ Apply
  BY <1>2, DispatchMovesNobody DEF NoClosedEdgeEntered
<1>3. CASE TrySpawn
  <2>1. PICK a : a = Head(todo)
    OBVIOUS
  <2>2. CASE MayEnter(a, agent[a].route[1])
             /\ agent' = [agent EXCEPT ![a].status = "active", ![a].pos = 1,
                                       ![a].traj = <<agent[a].route[1]>>]
    <3>1. a \in Agents
      <4>1. IsSeq(todo) /\ todo # <<>> /\ Range(todo) \subseteq Agents
        BY <1>3 DEF TrySpawn, IInv, TypeOK
      <4> QED BY <2>1, <4>1, TakeFirst
    <3>2. PICK e : e = agent[a].route[1]
      OBVIOUS
    <3>3. agent'[a].traj = <<e>> /\ \A b \in Agents : b # a => agent'[b] = agent[b]
      BY <2>2, <3>1, <3>2 DEF IInv, TypeOK, AgentRecord
    <3>4. Last(<<e>>) = e /\ ~Closed(Fleet[a], e)
      BY <2>2, <3>2 DEF Last, MayEnter
    <3> QED BY <3>3, <3>4 DEF NoClosedEdgeEntered
  <2> QED BY <1>1, <1>3, <2>1, <2>2 DEF TrySpawn
<1>4. ASSUME NEW a \in Agents, Arrive(a) \/ Wait(a) PROVE NoClosedEdgeEntered
  <2>1. \A b \in Agents : agent'[b].traj = agent[b].traj
    <3>1. CASE Arrive(a)
      <4>1. agent' = [agent EXCEPT ![a].status = "arrived"]
        BY <3>1 DEF Arrive
      <4>2. PICK q \in AgentRecord : OneAgent(a, q) /\ q.traj = agent[a].traj
        BY <4>1, ArrivedFields DEF IInv
      <4> QED BY <4>2, OthersStay DEF IInv
    <3>2. CASE Wait(a)
      <4>1. PICK force : force = (agent[a].force \/ Closed(Fleet[a], Ahead(a)))
        OBVIOUS
      <4>2. force \in BOOLEAN
        BY <4>1
      <4>3. agent' = [agent EXCEPT ![a].end = TRUE, ![a].force = force]
        BY <3>2, <4>1 DEF Wait
      <4>4. PICK q \in AgentRecord : OneAgent(a, q) /\ q.traj = agent[a].traj
        BY <4>2, <4>3, WaitingFields DEF IInv
      <4> QED BY <4>4, OthersStay DEF IInv
    <3> QED BY <1>4, <3>1, <3>2
  <2> QED BY <2>1 DEF NoClosedEdgeEntered
<1>5. ASSUME NEW a \in Agents, Cross(a) PROVE NoClosedEdgeEntered
  <2>1. /\ Moving(a) /\ ~OnLastEdge(a) /\ MayEnter(a, Ahead(a))
        /\ agent' = [agent EXCEPT ![a].pos = @ + 1, ![a].end = FALSE,
                                  ![a].traj = Append(@, Ahead(a))]
    BY <1>5 DEF Cross
  <2>2. PICK e \in Edges : e = Ahead(a)
    BY <2>1, ItsTurn, ActiveAgent
  <2>3. PICK t \in Seq(Edges) : t = agent[a].traj
    BY DEF IInv, TypeOK, AgentRecord
  <2>4. agent'[a].traj = Append(t, e) /\ \A b \in Agents : b # a => agent'[b] = agent[b]
    BY <2>1, <2>2, <2>3 DEF IInv, TypeOK, AgentRecord
  <2>5. Last(Append(t, e)) = e
    BY AppendProperties DEF Last
  <2>6. ~Closed(Fleet[a], e)
    BY <2>1, <2>2 DEF MayEnter
  <2> QED BY <2>4, <2>5, <2>6 DEF NoClosedEdgeEntered
<1>6. CASE Reroute
  <2>1. PICK a, route :
          agent' = [agent EXCEPT ![a].force = FALSE, ![a].last = tick, ![a].route = route]
    BY <1>6, Zenon DEF Reroute
  <2>2. \A b \in Agents : agent'[b].traj = agent[b].traj
    BY <2>1 DEF IInv, TypeOK, AgentRecord
  <2> QED BY <2>2 DEF NoClosedEdgeEntered
<1>7. CASE Finish
  <2>1. agent' = [a \in Agents |->
           IF a \in Left THEN [agent[a] EXCEPT !.status = "never"] ELSE agent[a]]
    BY <1>7, Zenon DEF Finish
  <2>2. ASSUME NEW a \in Agents PROVE agent'[a].traj = agent[a].traj
    <3>1. PICK r \in AgentRecord : r = agent[a]
      BY DEF IInv, TypeOK
    <3>2. [r EXCEPT !.status = "never"].traj = r.traj
      BY DEF AgentRecord
    <3> QED BY <2>1, <3>1, <3>2
  <2> QED BY <2>2 DEF NoClosedEdgeEntered
<1>8. CASE Move
  <2>1. ASSUME NEW a \in Agents, Stop(a) PROVE NoClosedEdgeEntered
    BY <1>1, <2>1 DEF Stop, traffic
  <2> QED BY <1>4, <1>5, <1>8, <2>1 DEF Move
<1>9. CASE \/ EndDispatch \/ TakeInbox \/ Proceed \/ StartMoving \/ StartRerouting
           \/ EndTick \/ Publish \/ Record \/ Control \/ Delete
  BY <1>1, <1>9 DEF EndDispatch, TakeInbox, Proceed, StartMoving, StartRerouting, EndTick,
                    Publish, Record, Control, Delete, traffic
<1>10. CASE UNCHANGED vars
  BY <1>1, <1>10 DEF vars, traffic
<1> QED BY <1>2, <1>3, <1>6, <1>7, <1>8, <1>9, <1>10 DEF Next, Engine

\* No agent comes onto an edge that is closed to its fleet at that moment, by
\* departing, driving on, or a reroute.
THEOREM ClosuresAreObeyed == Spec => ClosuresHold
<1>1. IInv /\ [Next]_vars => NoClosedEdgeEntered
  BY StepsObeyClosures
<1>2. Spec => [][NoClosedEdgeEntered]_vars
  BY <1>1, Invariant, PTL DEF Spec
<1> QED BY <1>2 DEF ClosuresHold, NoClosedEdgeEntered

=============================================================================
