------------------------ MODULE TrafficService_proofs ------------------------
(***************************************************************************)
(* The safety properties of TrafficService, for any number of requests,    *)
(* clients and profiles, any cache capacity and any batches.  Caches are   *)
(* reasoned about as sets of entries: what an LRU operation does to a      *)
(* sequence is proved once.  The last part shows that the service          *)
(* implements LiveTrafficStore.                                            *)
(***************************************************************************)
EXTENDS TrafficService, CollectionLemmas, TLAPS

-----------------------------------------------------------------------------
(* The inductive invariant.                                                *)

KeyOf(c) == Key(call[c].dep, call[c].snap)

\* A cache holds at most Capacity entries, each under a key of its own.
KeysOnce(s) == \A i, j \in DOMAIN s : s[i].key = s[j].key => i = j
LruOK(s) ==
  /\ s \in Seq(Range(s)) /\ Len(s) <= Capacity /\ KeysOnce(s)
  /\ \A e \in Range(s) : e = [key |-> e.key, slot |-> e.slot] /\ e.slot \in SlotIds

SnapshotOK(snap) ==
  /\ snap = [version |-> snap.version, entries |-> snap.entries]
  /\ snap.version \in Nat /\ DOMAIN snap.entries \in SUBSET Features

CallOK(d) ==
  /\ d = [pc |-> d.pc, router |-> d.router, dep |-> d.dep, snap |-> d.snap, slot |-> d.slot]
  /\ d.router \in 1..Routers /\ SnapshotOK(d.snap)
  /\ \/ d.pc \in {"none", "lookup"} /\ d.slot = NoSlot
     \/ d.pc \in {"get", "building"} /\ d.slot \in SlotIds

SlotOK(x) ==
  /\ x = [state |-> x.state, engine |-> x.engine]
  /\ x.state \in {"empty", "building", "ready", "failed"}

HeapOK ==
  /\ cache = [r \in 1..Routers |-> cache[r]] /\ \A r \in 1..Routers : LruOK(cache[r])
  /\ slots = [s \in SlotIds |-> slots[s]] /\ \A s \in SlotIds : SlotOK(slots[s])
  /\ call = [c \in Callers |-> call[c]] /\ \A c \in Callers : CallOK(call[c])

TypeOK == setup \in Setups /\ SnapshotOK(live) /\ HeapOK

\* The worker prepares engines for the snapshot it will publish next, or for
\* the published one.
WorkerFields == {"pc", "batch", "next", "at", "event", "until", "report"}
WorkerOK ==
  /\ worker = [x \in WorkerFields |-> worker[x]]
  /\ worker.pc \notin {"applying", "prewarming"} => call[Worker].pc = "none"
  /\ worker.pc = "applying" =>
       /\ worker.next.version = live.version + 1
       /\ call[Worker].pc # "none" /\ call[Worker].snap = worker.next
       /\ call[Worker].dep = worker.at

\* A version names one snapshot, and only the worker is ever ahead of the
\* published one.
InUse == {NoSnapshot, live} \cup {call[c].snap : c \in Callers}
VersionsDiffer == \A S, T \in InUse : S.version = T.version => S = T
NobodyAhead ==
  \A c \in Callers : \/ call[c].snap.version <= live.version
                     \/ c = Worker /\ worker.pc = "applying"

\* Who refers to a slot, and under which key of which router.
Claims ==
  (UNION {{[router |-> r, key |-> e.key, slot |-> e.slot] : e \in Range(cache[r])} :
           r \in 1..Routers})
  \cup {[router |-> call[c].router, key |-> KeyOf(c), slot |-> call[c].slot] :
          c \in {d \in Callers : call[d].slot # NoSlot}}

\* All who refer to one slot mean the same key of the same router; what
\* nobody refers to is free.
OneClaim == \A p, q \in Claims : p.slot = q.slot => p = q
FreeIsEmpty == \A s \in SlotIds : s \notin Held(cache, call) => slots[s] = EmptySlot

\* One caller builds a slot; whether it succeeded tells the router.
BuildersAlone ==
  /\ \A c \in Callers : call[c].pc = "building" => slots[call[c].slot].state = "building"
  /\ \A c, d \in Callers : (/\ call[c].pc = "building" /\ call[d].pc = "building"
                            /\ call[c].slot = call[d].slot) => c = d
StatesTell ==
  \A p \in Claims :
    /\ slots[p.slot].state = "ready" => p.router \notin setup.failing
    /\ slots[p.slot].state = "failed" => p.router \in setup.failing
SlotInv == OneClaim /\ FreeIsEmpty /\ BuildersAlone /\ StatesTell

\* An engine is the one of its key under any snapshot of that version.
GoodEngine(key, engine) ==
  IF key.active = {} THEN engine = [class |-> key.class, live |-> {}]
  ELSE \A S \in InUse : S.version = key.version => engine = EngineFor(key, S)
EnginesGood ==
  setup.failing = {} => \A p \in Claims :
    slots[p.slot].state = "ready" => GoodEngine(p.key, slots[p.slot].engine)

\* No key is ahead of the snapshots.
KeysBehind ==
  setup.failing = {} => \A p \in Claims :
    \/ p.key.active = {}
    \/ p.key.version \in 0..live.version
    \/ worker.pc = "applying" /\ p.key.version = worker.next.version

\* A swap in progress has warmed the routers before the one it is at.
Full(r) == Len(cache[r]) = Capacity
WarmSoFar ==
  worker.pc = "applying" =>
    LET key == Key(worker.at, worker.next) at == call[Worker].router IN
    /\ \A r \in 1..(at - 1) :
         /\ r \notin setup.failing
         /\ \/ Full(r)
            \/ \E e \in Range(cache[r]) : e.key = key /\ slots[e.slot].state = "ready"
    /\ (call[Worker].slot # NoSlot /\ at \notin setup.failing) =>
         \/ Full(at)
         \/ \E e \in Range(cache[at]) : e.key = key /\ e.slot = call[Worker].slot

IInv ==
  /\ TypeOK /\ WorkerOK /\ VersionsDiffer /\ NobodyAhead
  /\ SlotInv /\ EnginesGood /\ KeysBehind /\ WarmSoFar

-----------------------------------------------------------------------------
(* What a cache operation does to one router's cache.                      *)

LEMMA LruFacts ==
  ASSUME NEW s, LruOK(s)
  PROVE  /\ s \in Seq(Range(s)) /\ Len(s) \in Nat /\ DOMAIN s = 1..Len(s)
         /\ \A e : e \in Range(s) <=> \E i \in 1..Len(s) : s[i] = e
         /\ Capacity \in Nat /\ Capacity > 0 /\ Len(s) <= Capacity
<1>1. s \in Seq(Range(s)) /\ Len(s) <= Capacity
  BY DEF LruOK
<1>2. Capacity \in Nat /\ Capacity > 0
  BY SetupAssumption
<1> QED BY <1>1, <1>2, OverItsRange

\* An entry that is used moves to the back.
LEMMA Touched ==
  ASSUME NEW s, LruOK(s), NEW i \in DOMAIN s
  PROVE  LET t == Append(RemoveAt(s, i), s[i]) IN
         LruOK(t) /\ Range(t) = Range(s) /\ Len(t) = Len(s)
<1> DEFINE u == RemoveAt(s, i)
           t == Append(u, s[i])
           n == Len(s)
<1>1. /\ s \in Seq(Range(s)) /\ n \in Nat /\ DOMAIN s = 1..n /\ i \in 1..n
      /\ \A e : e \in Range(s) <=> \E j \in 1..n : s[j] = e
  BY LruFacts
<1>2. /\ u \in Seq(Range(u)) /\ Len(u) = n - 1
      /\ \A j \in 1..(n - 1) : u[j] = IF j < i THEN s[j] ELSE s[j + 1]
      /\ Range(u) \subseteq Range(s)
      /\ \A x \in Range(s) : x = s[i] \/ x \in Range(u)
  BY <1>1, RemoveAtRange
<1> HIDE DEF u
<1>3. /\ t \in Seq(Range(t)) /\ Range(t) = Range(u) \cup {s[i]}
      /\ Len(t) = Len(u) + 1 /\ DOMAIN t = 1..(Len(u) + 1)
      /\ t[Len(u) + 1] = s[i] /\ \A j \in 1..Len(u) : t[j] = u[j]
  BY <1>2, AppendRange
<1> HIDE DEF t
<1>4. Len(t) = n /\ DOMAIN t = 1..n /\ t[n] = s[i]
  BY <1>1, <1>2, <1>3
<1>5. s[i] \in Range(s)
  BY <1>1
<1>6. Range(t) = Range(s)
  BY <1>2, <1>3, <1>5
<1> DEFINE from(j) == IF j = n THEN i ELSE IF j < i THEN j ELSE j + 1
<1>n. n \in Nat /\ i \in 1..n /\ Len(u) = n - 1
  BY <1>1, <1>2
<1> HIDE DEF n
<1>7. ASSUME NEW j \in 1..n PROVE from(j) \in 1..n /\ t[j] = s[from(j)]
  <2>1. CASE j = n
    BY <1>1, <1>4, <2>1
  <2>2. CASE j # n
    <3>1. j \in 1..(n - 1) /\ j \in 1..Len(u)
      BY <1>n, <2>2
    <3>2. t[j] = u[j]
      BY <1>3, <3>1
    <3>3. u[j] = IF j < i THEN s[j] ELSE s[j + 1]
      BY <1>2, <3>1
    <3>4. from(j) = IF j < i THEN j ELSE j + 1
      BY <2>2
    <3>5. from(j) \in 1..n
      <4>1. CASE j < i
        BY <1>n, <3>1, <3>4, <4>1
      <4>2. CASE ~(j < i)
        BY <1>n, <3>1, <3>4, <4>2
      <4> QED BY <4>1, <4>2
    <3> QED BY <3>2, <3>3, <3>4, <3>5
  <2> QED BY <2>1, <2>2
<1>8. ASSUME NEW j \in 1..n, NEW k \in 1..n, from(j) = from(k) PROVE j = k
  BY <1>n, <1>8
<1> HIDE DEF from
<1>9. KeysOnce(t)
  <2>1. ASSUME NEW j \in 1..n, NEW k \in 1..n, t[j].key = t[k].key PROVE j = k
    <3>1. s[from(j)].key = s[from(k)].key
      BY <1>7, <2>1
    <3>2. from(j) = from(k)
      BY <1>1, <1>7, <3>1 DEF LruOK, KeysOnce
    <3> QED BY <1>8, <3>2
  <2> QED BY <1>4, <2>1 DEF KeysOnce
<1> QED BY <1>3, <1>4, <1>6, <1>9 DEF LruOK, t, u, n

\* A new entry goes to the back of a cache with room for it.
LEMMA Inserted ==
  ASSUME NEW s, LruOK(s), Len(s) < Capacity, NEW e,
         e = [key |-> e.key, slot |-> e.slot], e.slot \in SlotIds,
         \A x \in Range(s) : x.key # e.key
  PROVE  LET t == Append(s, e) IN
         LruOK(t) /\ Range(t) = Range(s) \cup {e} /\ Len(t) = Len(s) + 1
<1> DEFINE t == Append(s, e)
           n == Len(s)
<1>1. /\ s \in Seq(Range(s)) /\ n \in Nat /\ DOMAIN s = 1..n
      /\ \A x : x \in Range(s) <=> \E j \in 1..n : s[j] = x
      /\ Capacity \in Nat
  BY LruFacts
<1>2. /\ t \in Seq(Range(t)) /\ Range(t) = Range(s) \cup {e}
      /\ Len(t) = n + 1 /\ DOMAIN t = 1..(n + 1)
      /\ t[n + 1] = e /\ \A j \in 1..n : t[j] = s[j]
  BY <1>1, AppendRange
<1> HIDE DEF t
<1>3. KeysOnce(t)
  <2>1. ASSUME NEW j \in 1..n, NEW k \in 1..n, t[j].key = t[k].key PROVE j = k
    BY <1>1, <1>2, <2>1 DEF LruOK, KeysOnce
  <2>2. ASSUME NEW j \in 1..n PROVE t[j].key # t[n + 1].key
    <3>1. s[j] \in Range(s)
      BY <1>1
    <3> QED BY <1>2, <3>1
  <2>3. \A j \in 1..(n + 1) : j \in 1..n \/ j = n + 1
    BY <1>1
  <2> HIDE DEF n
  <2> QED BY <1>2, <2>1, <2>2, <2>3 DEF KeysOnce
<1>4. Len(t) <= Capacity
  BY <1>1, <1>2
<1>5. \A x \in Range(t) : x = [key |-> x.key, slot |-> x.slot] /\ x.slot \in SlotIds
  BY <1>2 DEF LruOK
<1> QED BY <1>2, <1>3, <1>4, <1>5 DEF LruOK, t, n

\* Removing a position removes its entry only.
LEMMA Removed ==
  ASSUME NEW s, LruOK(s), NEW i \in DOMAIN s
  PROVE  LET t == RemoveAt(s, i) IN
         /\ LruOK(t) /\ Range(t) \subseteq Range(s) /\ s[i] \notin Range(t)
         /\ \A x \in Range(s) : x = s[i] \/ x \in Range(t)
<1> DEFINE t == RemoveAt(s, i)
           n == Len(s)
<1>1. /\ s \in Seq(Range(s)) /\ n \in Nat /\ DOMAIN s = 1..n /\ i \in 1..n
      /\ Capacity \in Nat /\ n <= Capacity
  BY LruFacts
<1>2. /\ t \in Seq(Range(t)) /\ Len(t) = n - 1 /\ DOMAIN t = 1..(n - 1)
      /\ \A j \in 1..(n - 1) : t[j] = IF j < i THEN s[j] ELSE s[j + 1]
      /\ Range(t) \subseteq Range(s)
      /\ \A x \in Range(s) : x = s[i] \/ x \in Range(t)
  BY <1>1, RemoveAtRange
<1> HIDE DEF t
<1> DEFINE from(j) == IF j < i THEN j ELSE j + 1
<1>3. \A j \in 1..(n - 1) : from(j) \in 1..n /\ from(j) # i
  BY <1>1
<1>4. \A j \in 1..(n - 1) : t[j] = s[from(j)]
  BY <1>2
<1>5. \A j, k \in 1..(n - 1) : from(j) = from(k) => j = k
  BY <1>1
<1>6. \A j, k \in 1..n : s[j].key = s[k].key => j = k
  BY <1>1 DEF LruOK, KeysOnce
<1> HIDE DEF from, n
<1>7. KeysOnce(t)
  BY <1>2, <1>3, <1>4, <1>5, <1>6 DEF KeysOnce
<1>8. s[i] \notin Range(t)
  <2>1. SUFFICES ASSUME s[i] \in Range(t) PROVE FALSE
    OBVIOUS
  <2>2. PICK j \in 1..(n - 1) : t[j] = s[i]
    BY <1>2, <2>1 DEF Range
  <2> QED BY <1>1, <1>3, <1>4, <1>6, <2>2
<1>9. Len(t) <= Capacity
  BY <1>1, <1>2 DEF n
<1> QED BY <1>2, <1>7, <1>8, <1>9 DEF LruOK, t

\* A full cache loses its first entry.
LEMMA Evicted ==
  ASSUME NEW s, LruOK(s), Len(s) > 0
  PROVE  LruOK(Tail(s)) /\ Range(Tail(s)) \subseteq Range(s) /\ Len(Tail(s)) = Len(s) - 1
<1> DEFINE t == Tail(s)
           n == Len(s)
<1>1. /\ s \in Seq(Range(s)) /\ n \in Nat /\ DOMAIN s = 1..n
      /\ Capacity \in Nat /\ n <= Capacity
  BY LruFacts
<1>2. /\ t \in Seq(Range(t)) /\ Len(t) = n - 1 /\ DOMAIN t = 1..(n - 1)
      /\ \A j \in 1..(n - 1) : t[j] = s[j + 1]
      /\ Range(t) \subseteq Range(s)
  BY <1>1, TailRange
<1> HIDE DEF t
<1>3. \A j, k \in 1..n : s[j].key = s[k].key => j = k
  BY <1>1 DEF LruOK, KeysOnce
<1>4. ASSUME NEW j \in 1..(n - 1), NEW k \in 1..(n - 1), t[j].key = t[k].key PROVE j = k
  <2>1. j + 1 \in 1..n /\ k + 1 \in 1..n /\ s[j + 1].key = s[k + 1].key
    BY <1>1, <1>2, <1>4
  <2>2. j + 1 = k + 1
    BY <1>3, <2>1
  <2> QED BY <1>1, <2>2
<1>5. KeysOnce(t) /\ Len(t) <= Capacity
  BY <1>1, <1>2, <1>4 DEF KeysOnce
<1> QED BY <1>1, <1>2, <1>5 DEF LruOK, t

-----------------------------------------------------------------------------
(* Slots and who refers to them.                                           *)

LEMMA HeldIs ==
  ASSUME NEW caches, NEW calls
  PROVE  \A s : s \in Held(caches, calls) <=>
           \/ \E r \in 1..Routers : \E e \in Range(caches[r]) : e.slot = s
           \/ \E c \in Callers : calls[c].slot = s
<1> DEFINE A == UNION {{e.slot : e \in Range(caches[r])} : r \in 1..Routers}
           B == {calls[c].slot : c \in Callers}
<1>1. \A s : s \in A <=> \E r \in 1..Routers : \E e \in Range(caches[r]) : e.slot = s
  OBVIOUS
<1>2. \A s : s \in B <=> \E c \in Callers : calls[c].slot = s
  OBVIOUS
<1>3. Held(caches, calls) = A \cup B
  BY DEF Held
<1> HIDE DEF A, B
<1> QED BY <1>1, <1>2, <1>3

LEMMA ClaimsAre ==
  \A p : p \in Claims <=>
    \/ \E r \in 1..Routers : \E e \in Range(cache[r]) :
         p = [router |-> r, key |-> e.key, slot |-> e.slot]
    \/ \E c \in Callers :
         /\ call[c].slot # NoSlot
         /\ p = [router |-> call[c].router, key |-> KeyOf(c), slot |-> call[c].slot]
<1> DEFINE A == UNION {{[router |-> r, key |-> e.key, slot |-> e.slot] :
                          e \in Range(cache[r])} : r \in 1..Routers}
           B == {[router |-> call[c].router, key |-> KeyOf(c), slot |-> call[c].slot] :
                   c \in {d \in Callers : call[d].slot # NoSlot}}
<1>1. \A p : p \in A <=>
         \E r \in 1..Routers : \E e \in Range(cache[r]) :
           p = [router |-> r, key |-> e.key, slot |-> e.slot]
  OBVIOUS
<1>2. \A p : p \in B <=>
         \E c \in Callers :
           /\ call[c].slot # NoSlot
           /\ p = [router |-> call[c].router, key |-> KeyOf(c), slot |-> call[c].slot]
  OBVIOUS
<1>3. Claims = A \cup B
  BY DEF Claims
<1> HIDE DEF A, B
<1> QED BY <1>1, <1>2, <1>3

LEMMA CallersAreFinite ==
  /\ IsFiniteSet(Callers) /\ Cardinality(Callers) \in Nat
  /\ \A c \in Callers : /\ IsFiniteSet(Callers \ {c})
                        /\ Cardinality(Callers \ {c}) = Cardinality(Callers) - 1
<1>1. IsFiniteSet(Requests) /\ IsFiniteSet({Worker})
  BY WorkerAssumption, FS_Singleton
<1>2. IsFiniteSet(Callers)
  BY <1>1, FS_Union DEF Callers
<1> QED BY <1>2, FS_CardinalityType, FS_RemoveElement

LEMMA RoutersBound ==
  ASSUME TypeOK
  PROVE  /\ Routers \in Nat /\ Routers > 0 /\ MaxRouters \in Nat /\ Routers <= MaxRouters
         /\ Capacity \in Nat /\ Capacity > 0 /\ setup.failing \subseteq 1..Routers
         /\ Capacity * MaxRouters \in Nat
<1>1. setup \in Setups
  BY DEF TypeOK, HeapOK
<1>2. Capacity \in 1..64 /\ MaxRouters \in Nat /\ setup.routers \in 1..MaxRouters
      /\ setup.failing \subseteq 1..setup.routers
  BY <1>1, SetupAssumption
<1> QED BY <1>2 DEF Routers

LEMMA SlotIdsAre ==
  ASSUME TypeOK
  PROVE  /\ SlotIds \subseteq Nat /\ NoSlot \notin SlotIds /\ IsFiniteSet(SlotIds)
         /\ Cardinality(SlotIds) = Capacity * MaxRouters + Cardinality(Callers)
<1> DEFINE n == Capacity * MaxRouters + Cardinality(Callers)
<1>1. n \in Nat
  BY RoutersBound, CallersAreFinite
<1>2. SlotIds = 1..n
  BY DEF SlotIds
<1> HIDE DEF n
<1>3. 1 \in Int /\ n \in Int /\ (IF 1 > n THEN 0 ELSE n - 1 + 1) = n
  BY <1>1
<1>4. IsFiniteSet(1..n) /\ Cardinality(1..n) = n
  BY <1>3, FS_Interval
<1> QED BY <1>1, <1>2, <1>4 DEF n, NoSlot

\* There is always a slot for a caller that has none.
LEMMA FreshIsFree ==
  ASSUME TypeOK, NEW c \in Callers, call[c].slot = NoSlot
  PROVE  Fresh \in SlotIds /\ Fresh \notin Held(cache, call)
<1> DEFINE inCaches == UNION {{e.slot : e \in Range(cache[r])} : r \in 1..Routers}
           inCalls == {call[d].slot : d \in Callers \ {c}}
           R == 1..Routers
           K == 1..Capacity
           P == {p \in R \X K : p[2] \in DOMAIN cache[p[1]]}
           f == [p \in P |-> cache[p[1]][p[2]].slot]
           g == [d \in Callers \ {c} |-> call[d].slot]
           n == Capacity * MaxRouters
<1>1. /\ Routers \in Nat /\ MaxRouters \in Nat /\ Routers <= MaxRouters
      /\ Capacity \in Nat /\ n \in Nat
  BY RoutersBound
<1>2. IsFiniteSet(P) /\ Cardinality(P) <= n
  <2>1. /\ IsFiniteSet(K) /\ Cardinality(K) = Capacity
        /\ IsFiniteSet(1..MaxRouters) /\ Cardinality(1..MaxRouters) = MaxRouters
    <3>1. (IF 1 > Capacity THEN 0 ELSE Capacity - 1 + 1) = Capacity
      BY <1>1
    <3>2. (IF 1 > MaxRouters THEN 0 ELSE MaxRouters - 1 + 1) = MaxRouters
      BY <1>1
    <3>3. 1 \in Int /\ Capacity \in Int /\ MaxRouters \in Int
      BY <1>1
    <3> QED BY <3>1, <3>2, <3>3, FS_Interval
  <2>2. /\ IsFiniteSet((1..MaxRouters) \X K)
        /\ Cardinality((1..MaxRouters) \X K) = MaxRouters * Capacity
    <3> HIDE DEF K
    <3>1. /\ IsFiniteSet((1..MaxRouters) \X K)
          /\ Cardinality((1..MaxRouters) \X K) = Cardinality(1..MaxRouters) * Cardinality(K)
      BY <2>1, FS_Product
    <3> QED BY <2>1, <3>1
  <2>3. R \subseteq 1..MaxRouters
    BY <1>1
  <2>4. P \in SUBSET ((1..MaxRouters) \X K)
    BY <2>3
  <2>5. IsFiniteSet(P) /\ Cardinality(P) <= MaxRouters * Capacity
    BY <2>2, <2>4, FS_Subset
  <2>6. MaxRouters * Capacity = n
    BY <1>1
  <2> HIDE DEF P, n
  <2> QED BY <2>5, <2>6
<1>3. IsFiniteSet(inCaches) /\ Cardinality(inCaches) <= Cardinality(P)
  <2>1. \A r \in R : \A i \in DOMAIN cache[r] : i \in K
    <3>1. ASSUME NEW r \in R, NEW i \in DOMAIN cache[r] PROVE i \in K
      <4>1. LruOK(cache[r])
        BY DEF TypeOK, HeapOK
      <4>2. DOMAIN cache[r] = 1..Len(cache[r]) /\ Len(cache[r]) \in Nat
            /\ Len(cache[r]) <= Capacity
        BY <4>1, LruFacts
      <4> QED BY <1>1, <4>2
    <3> QED BY <3>1
  <2>2. \A p \in P : f[p] \in inCaches
    <3>1. ASSUME NEW p \in P PROVE f[p] \in inCaches
      <4>1. p[1] \in R /\ p[2] \in DOMAIN cache[p[1]]
        OBVIOUS
      <4>2. cache[p[1]][p[2]] \in Range(cache[p[1]])
        BY <4>1, Zenon DEF Range
      <4>3. f[p] = cache[p[1]][p[2]].slot
        BY Zenon
      <4>4. \E r \in R : \E e \in Range(cache[r]) : e.slot = f[p]
        BY <4>1, <4>2, <4>3, Zenon
      <4> HIDE DEF f, P
      <4> QED BY <4>4
    <3> QED BY <3>1
  <2>3. \A s \in inCaches : \E p \in P : f[p] = s
    <3>1. ASSUME NEW s \in inCaches PROVE \E p \in P : f[p] = s
      <4>1. PICK r \in R : \E e \in Range(cache[r]) : e.slot = s
        BY Zenon
      <4>2. PICK e \in Range(cache[r]) : e.slot = s
        BY <4>1
      <4>3. PICK i \in DOMAIN cache[r] : cache[r][i] = e
        BY Zenon DEF Range
      <4>4. <<r, i>> \in P
        BY <2>1
      <4>5. f[<<r, i>>] = s
        BY <4>2, <4>3, <4>4
      <4> QED BY <4>4, <4>5
    <3> QED BY <3>1
  <2> HIDE DEF inCaches, P
  <2>4. f \in [P -> inCaches]
    BY <2>2
  <2> HIDE DEF f
  <2>5. f \in Surjection(P, inCaches)
    BY <2>3, <2>4, Zenon DEF Surjection
  <2> QED BY <1>2, <2>5, FS_Surjection
<1>4. IsFiniteSet(inCalls) /\ Cardinality(inCalls) <= Cardinality(Callers) - 1
  <2>1. g \in [Callers \ {c} -> inCalls] /\ \A s \in inCalls : \E d \in Callers \ {c} : g[d] = s
    BY Zenon
  <2> HIDE DEF inCalls, g
  <2>2. g \in Surjection(Callers \ {c}, inCalls)
    BY <2>1, Zenon DEF Surjection
  <2> QED BY <2>2, FS_Surjection, CallersAreFinite
<1>5. \A s \in SlotIds : s \in Held(cache, call) => s \in inCaches \cup inCalls
  <2>1. ASSUME NEW s \in SlotIds, s \in Held(cache, call) PROVE s \in inCaches \cup inCalls
    <3>1. s \in inCaches \/ \E d \in Callers : call[d].slot = s
      <4>1. Held(cache, call) = inCaches \cup {call[d].slot : d \in Callers}
        BY DEF Held
      <4> HIDE DEF inCaches
      <4> QED BY <2>1, <4>1
    <3>2. ASSUME NEW d \in Callers, call[d].slot = s PROVE s \in inCalls
      <4>1. d # c
        BY <3>2, SlotIdsAre
      <4> QED BY <3>2, <4>1
    <3> HIDE DEF inCaches, inCalls
    <3> QED BY <3>1, <3>2
  <2> QED BY <2>1
<1> HIDE DEF inCaches, inCalls, P, f, g, n
<1>6. SlotIds \ Held(cache, call) # {}
  <2>1. SUFFICES ASSUME SlotIds \subseteq inCaches \cup inCalls PROVE FALSE
    BY <1>5, Zenon
  <2>2. /\ IsFiniteSet(inCaches \cup inCalls)
        /\ Cardinality(inCaches \cup inCalls) =
             Cardinality(inCaches) + Cardinality(inCalls) - Cardinality(inCaches \cap inCalls)
    BY <1>3, <1>4, FS_Union
  <2>3. Cardinality(inCaches) \in Nat /\ Cardinality(inCalls) \in Nat
    BY <1>3, <1>4, FS_CardinalityType
  <2>4. Cardinality(inCaches \cap inCalls) \in Nat
    BY <1>3, FS_Intersection, FS_CardinalityType
  <2>5. Cardinality(P) \in Nat
    BY <1>2, FS_CardinalityType
  <2>6. Cardinality(SlotIds) <= Cardinality(inCaches \cup inCalls)
    BY <2>1, <2>2, FS_Subset
  <2>7. Cardinality(SlotIds) = n + Cardinality(Callers) /\ Cardinality(Callers) \in Nat
    BY SlotIdsAre, CallersAreFinite DEF n
  <2> QED BY <1>1, <1>2, <1>3, <1>4, <2>2, <2>3, <2>4, <2>5, <2>6, <2>7
<1>7. SlotIds \ Held(cache, call) \in SUBSET Nat
  BY SlotIdsAre
<1>8. Min(SlotIds \ Held(cache, call)) \in SlotIds \ Held(cache, call)
  BY <1>6, <1>7, MinIsLeast
<1> QED BY <1>8 DEF Fresh

-----------------------------------------------------------------------------
(* Keys and engines.                                                       *)

\* The engine a departure under a snapshot calls for.
Right(t, snap) ==
  [class |-> ClassAt(t),
   live |-> {<<f, snap.entries[f].value>> : f \in ActiveFeatures(t, snap.entries)}]

\* Positions in a snapshot identify its features.
LEMMA PositionsDiffer ==
  ASSUME NEW es, DOMAIN es \in SUBSET Features,
         NEW f \in DOMAIN es, NEW g \in DOMAIN es, IndexIn(es, f) = IndexIn(es, g)
  PROVE  f = g
<1>1. DOMAIN es \subseteq Nat /\ IsFiniteSet(DOMAIN es)
  BY FeaturesAssumption, FS_Subset
<1>2. ASSUME NEW x \in DOMAIN es, NEW y \in DOMAIN es, x < y
      PROVE  IndexIn(es, x) # IndexIn(es, y)
  <2> DEFINE below(z) == {h \in DOMAIN es : h < z}
  <2>1. IsFiniteSet(below(x)) /\ IsFiniteSet(below(y))
    BY <1>1, FS_Subset
  <2>2. x \in below(y) /\ x \notin below(x) /\ below(x) \in SUBSET below(y)
    BY <1>1, <1>2
  <2>3. IndexIn(es, x) = Cardinality(below(x)) /\ IndexIn(es, y) = Cardinality(below(y))
    BY DEF IndexIn
  <2> HIDE DEF below
  <2> QED BY <2>1, <2>2, <2>3, FS_Subset
<1>3. f \in Nat /\ g \in Nat
  BY <1>1
<1>4. f < g \/ g < f \/ f = g
  BY <1>3
<1> QED BY <1>2, <1>4

\* A build bakes exactly what is active for its departure.
LEMMA EngineOfKey ==
  ASSUME NEW t, NEW snap, SnapshotOK(snap)
  PROVE  EngineFor(Key(t, snap), snap) = Right(t, snap)
<1> DEFINE es == snap.entries
           active == ActiveFeatures(t, es)
           baked == {f \in DOMAIN es : IndexIn(es, f) \in ActiveIndices(t, es)}
<1>1. DOMAIN es \in SUBSET Features
  BY DEF SnapshotOK
<1>2. active \subseteq DOMAIN es
  BY DEF ActiveFeatures
<1>3. baked = active
  <2>1. ASSUME NEW f \in active PROVE f \in baked
    BY <1>2 DEF ActiveIndices
  <2>2. ASSUME NEW f \in baked PROVE f \in active
    <3>1. PICK g \in active : IndexIn(es, f) = IndexIn(es, g)
      BY DEF ActiveIndices
    <3>2. f = g
      BY <1>1, <1>2, <3>1, PositionsDiffer
    <3> QED BY <3>2
  <2> QED BY <2>1, <2>2
<1>4. Key(t, snap).active = ActiveIndices(t, es) /\ Key(t, snap).class = ClassAt(t)
  BY DEF Key
<1>5. EngineFor(Key(t, snap), snap) =
        [class |-> ClassAt(t), live |-> {<<f, es[f].value>> : f \in baked}]
  BY <1>4 DEF EngineFor
<1> HIDE DEF baked, active
<1> QED BY <1>3, <1>5 DEF Right, active

\* Without active entries the snapshot does not matter; otherwise the key
\* carries its version.
LEMMA KeyIs ==
  ASSUME NEW t, NEW snap
  PROVE  LET key == Key(t, snap) IN
         /\ key.class = ClassAt(t)
         /\ key.active = {} => Right(t, snap) = [class |-> key.class, live |-> {}]
         /\ key.active # {} => key.version = snap.version
<1> DEFINE key == Key(t, snap)
           active == ActiveFeatures(t, snap.entries)
<1>1. /\ key.class = ClassAt(t) /\ key.active = ActiveIndices(t, snap.entries)
      /\ key.version = IF ActiveIndices(t, snap.entries) = {} THEN 0 ELSE snap.version
  BY DEF Key
<1>2. ASSUME key.active = {} PROVE Right(t, snap) = [class |-> key.class, live |-> {}]
  <2>1. active = {}
    BY <1>1, <1>2 DEF ActiveIndices
  <2> HIDE DEF key
  <2> QED BY <1>1, <2>1 DEF Right, active
<1> QED BY <1>1, <1>2

-----------------------------------------------------------------------------
(* What the steps do to caches, calls and slots.                           *)

\* Slots after a collection.
LEMMA CollectIs ==
  ASSUME TypeOK, setup' = setup, slots' = Collect(cache', call', slots)
  PROVE  /\ slots' = [s \in SlotIds |-> slots'[s]]
         /\ \A s \in SlotIds : SlotOK(slots'[s])
         /\ FreeIsEmpty'
         /\ \A s \in SlotIds : s \in Held(cache, call)' => slots'[s] = slots[s]
<1>1. slots' = [s \in SlotIds |-> IF s \in Held(cache', call') THEN slots[s] ELSE EmptySlot]
  BY DEF Collect
<1>2. SlotIds' = SlotIds /\ Held(cache, call)' = Held(cache', call')
  BY DEF SlotIds, Held, Routers
<1>3. \A s \in SlotIds : slots'[s] = IF s \in Held(cache', call') THEN slots[s] ELSE EmptySlot
  BY <1>1
<1>4. SlotOK(EmptySlot) /\ \A s \in SlotIds : SlotOK(slots[s])
  BY DEF SlotOK, EmptySlot, TypeOK, HeapOK
<1>5. \A s \in SlotIds : SlotOK(slots'[s])
  BY <1>3, <1>4
<1>6. FreeIsEmpty'
  BY <1>2, <1>3 DEF FreeIsEmpty
<1>7. slots' = [s \in SlotIds |-> slots'[s]]
  BY <1>1
<1> QED BY <1>2, <1>3, <1>5, <1>6, <1>7

\* A claim refers to a slot that is held.
LEMMA ClaimsHold ==
  HeapOK => \A p \in Claims : p.slot \in SlotIds /\ p.slot \in Held(cache, call)
<1> SUFFICES ASSUME HeapOK, NEW p \in Claims PROVE p.slot \in SlotIds /\ p.slot \in Held(cache, call)
  OBVIOUS
<1>1. CASE \E r \in 1..Routers : \E e \in Range(cache[r]) :
             p = [router |-> r, key |-> e.key, slot |-> e.slot]
  <2>1. PICK r \in 1..Routers : \E e \in Range(cache[r]) :
             p = [router |-> r, key |-> e.key, slot |-> e.slot]
    BY <1>1
  <2>2. PICK e \in Range(cache[r]) : p = [router |-> r, key |-> e.key, slot |-> e.slot]
    BY <2>1
  <2>3. LruOK(cache[r])
    BY DEF TypeOK, HeapOK
  <2>4. e.slot \in SlotIds
    BY <2>3 DEF LruOK
  <2>5. p.slot = e.slot
    BY <2>2
  <2> QED BY <2>4, <2>5, HeldIs
<1>2. CASE \E c \in Callers :
             /\ call[c].slot # NoSlot
             /\ p = [router |-> call[c].router, key |-> KeyOf(c), slot |-> call[c].slot]
  <2>1. PICK c \in Callers :
             /\ call[c].slot # NoSlot
             /\ p = [router |-> call[c].router, key |-> KeyOf(c), slot |-> call[c].slot]
    BY <1>2
  <2>2. CallOK(call[c])
    BY DEF TypeOK, HeapOK
  <2>3. call[c].slot \in SlotIds
    BY <2>1, <2>2 DEF CallOK
  <2>4. p.slot = call[c].slot
    BY <2>1
  <2> QED BY <2>3, <2>4, HeldIs
<1> QED BY <1>1, <1>2, ClaimsAre

\* What a claim is after a step.
LEMMA ClaimsAfter ==
  ASSUME setup' = setup
  PROVE  \A p : p \in Claims' <=>
    \/ \E r \in 1..Routers : \E e \in Range(cache'[r]) :
         p = [router |-> r, key |-> e.key, slot |-> e.slot]
    \/ \E c \in Callers :
         /\ call'[c].slot # NoSlot
         /\ p = [router |-> call'[c].router, key |-> Key(call'[c].dep, call'[c].snap),
                 slot |-> call'[c].slot]
<1>1. \A t, snap : Key(t, snap)' = Key(t, snap)
  BY DEF Key, ClassAt, BucketTicks
<1>2. \A c \in Callers : KeyOf(c)' = Key(call'[c].dep, call'[c].snap)
  BY <1>1 DEF KeyOf
<1>3. (\A p : p \in Claims <=>
         \/ \E r \in 1..Routers : \E e \in Range(cache[r]) :
              p = [router |-> r, key |-> e.key, slot |-> e.slot]
         \/ \E c \in Callers :
              /\ call[c].slot # NoSlot
              /\ p = [router |-> call[c].router, key |-> KeyOf(c), slot |-> call[c].slot])'
  BY ClaimsAre, PTL
<1>4. Routers' = Routers
  BY DEF Routers
<1> QED BY <1>2, <1>3, <1>4

Shrinks ==
  /\ cache' = [r \in 1..Routers |-> cache'[r]]
  /\ \A r \in 1..Routers : LruOK(cache'[r]) /\ Range(cache'[r]) \subseteq Range(cache[r])

\* A caller lets go of its slot, or had none.
LEMMA Reseated ==
  ASSUME TypeOK, SlotInv, setup' = setup, NEW c \in Callers, NEW x, CallOK(x),
         x.slot = NoSlot, call' = [call EXCEPT ![c] = x], Shrinks,
         slots' = Collect(cache', call', slots)
  PROVE  /\ HeapOK' /\ SlotInv' /\ Claims' \subseteq Claims
         /\ \A p \in Claims' : slots'[p.slot] = slots[p.slot]
         /\ call'[c] = x /\ \A d \in Callers : d # c => call'[d] = call[d]
<1>1. /\ call'[c] = x /\ \A d \in Callers : d # c => call'[d] = call[d]
      /\ call' = [d \in Callers |-> call'[d]]
  <2>1. call = [d \in Callers |-> call[d]]
    BY DEF TypeOK, HeapOK
  <2>2. call' = [d \in Callers |-> IF d = c THEN x ELSE call[d]]
    BY <2>1
  <2> QED BY <2>2
<1>2. /\ slots' = [s \in SlotIds |-> slots'[s]]
      /\ \A s \in SlotIds : SlotOK(slots'[s])
      /\ FreeIsEmpty'
      /\ \A s \in SlotIds : s \in Held(cache, call)' => slots'[s] = slots[s]
  BY CollectIs
<1>3. \A d \in Callers : CallOK(call[d])
  BY DEF TypeOK, HeapOK
<1>4. \A y : CallOK(y)' <=> CallOK(y)
  BY DEF CallOK, Routers
<1>5. \A d \in Callers : CallOK(call[d])'
  <2>1. ASSUME NEW d \in Callers PROVE CallOK(call'[d])
    BY <1>1, <1>3
  <2>2. ASSUME NEW d \in Callers PROVE CallOK(call[d])' <=> CallOK(call'[d])
    BY DEF CallOK, Routers
  <2> QED BY <2>1, <2>2
<1>6. HeapOK'
  <2>1. Routers' = Routers
    BY DEF Routers
  <2>2. cache' = [r \in 1..Routers |-> cache'[r]] /\ \A r \in 1..Routers : LruOK(cache'[r])
    BY DEF Shrinks
  <2>3. \A s : LruOK(s)' <=> LruOK(s)
    BY DEF LruOK
  <2> QED BY <1>1, <1>2, <1>5, <2>1, <2>2 DEF HeapOK
<1>7. Claims' \subseteq Claims
  <2> SUFFICES ASSUME NEW p \in Claims' PROVE p \in Claims
    OBVIOUS
  <2>1. CASE \E r \in 1..Routers : \E e \in Range(cache'[r]) :
               p = [router |-> r, key |-> e.key, slot |-> e.slot]
    <3>1. \E r \in 1..Routers : \E e \in Range(cache[r]) :
               p = [router |-> r, key |-> e.key, slot |-> e.slot]
      BY <2>1 DEF Shrinks
    <3> QED BY <3>1, ClaimsAre
  <2>2. CASE \E d \in Callers :
         /\ call'[d].slot # NoSlot
         /\ p = [router |-> call'[d].router, key |-> Key(call'[d].dep, call'[d].snap),
                 slot |-> call'[d].slot]
    <3>1. PICK d \in Callers :
         /\ call'[d].slot # NoSlot
         /\ p = [router |-> call'[d].router, key |-> Key(call'[d].dep, call'[d].snap),
                 slot |-> call'[d].slot]
      BY <2>2
    <3>2. call'[d] = call[d]
      BY <1>1, <3>1
    <3>3. /\ call[d].slot # NoSlot
          /\ p = [router |-> call[d].router, key |-> KeyOf(d), slot |-> call[d].slot]
      BY <3>1, <3>2 DEF KeyOf
    <3> QED BY <3>3, ClaimsAre
  <2> QED BY <2>1, <2>2, ClaimsAfter
<1>8. \A p \in Claims' : p.slot \in SlotIds /\ p.slot \in Held(cache, call)'
  <2>1. (HeapOK => \A p \in Claims : p.slot \in SlotIds /\ p.slot \in Held(cache, call))'
    BY ClaimsHold, PTL
  <2>2. SlotIds' = SlotIds
    BY DEF SlotIds
  <2> QED BY <1>6, <2>1, <2>2
<1>9. \A p \in Claims' : slots'[p.slot] = slots[p.slot]
  BY <1>2, <1>8
<1>10. OneClaim'
  <2>1. \A p, q \in Claims' : p.slot = q.slot => p = q
    BY <1>7 DEF SlotInv, OneClaim
  <2> QED BY <2>1 DEF OneClaim
<1>11. StatesTell'
  <2>1. \A p \in Claims :
          /\ slots[p.slot].state = "ready" => p.router \notin setup.failing
          /\ slots[p.slot].state = "failed" => p.router \in setup.failing
    BY DEF SlotInv, StatesTell
  <2>2. \A p \in Claims' :
          /\ slots'[p.slot].state = "ready" => p.router \notin setup'.failing
          /\ slots'[p.slot].state = "failed" => p.router \in setup'.failing
    BY <1>7, <1>9, <2>1
  <2> QED BY <2>2 DEF StatesTell
<1>12. BuildersAlone'
  <2>1. x.pc # "building"
    BY DEF CallOK, SlotIds, NoSlot
  <2>2. ASSUME NEW d \in Callers, call'[d].pc = "building"
        PROVE  /\ call'[d] = call[d] /\ call[d].slot \in SlotIds
               /\ slots'[call[d].slot] = slots[call[d].slot]
    <3>1. call'[d] = call[d]
      BY <1>1, <2>1, <2>2
    <3>2. call[d].slot \in SlotIds
      BY <1>3, <2>2, <3>1 DEF CallOK
    <3>3. call[d].slot \in Held(cache, call)'
      BY <3>1, HeldIs DEF Held
    <3> QED BY <1>2, <3>1, <3>2, <3>3
  <2>3. /\ \A d \in Callers : call[d].pc = "building" => slots[call[d].slot].state = "building"
        /\ \A d, b \in Callers : (/\ call[d].pc = "building" /\ call[b].pc = "building"
                                  /\ call[d].slot = call[b].slot) => d = b
    BY DEF SlotInv, BuildersAlone
  <2>4. ASSUME NEW d \in Callers, call'[d].pc = "building"
        PROVE  slots'[call'[d].slot].state = "building"
    <3>1. call'[d] = call[d] /\ slots'[call[d].slot] = slots[call[d].slot]
      BY <2>2, <2>4
    <3>2. slots[call[d].slot].state = "building"
      BY <2>3, <2>4, <3>1
    <3> QED BY <3>1, <3>2
  <2>5. ASSUME NEW d \in Callers, NEW b \in Callers, call'[d].pc = "building",
               call'[b].pc = "building", call'[d].slot = call'[b].slot
        PROVE  d = b
    BY <2>2, <2>3, <2>5
  <2> QED BY <2>4, <2>5 DEF BuildersAlone
<1> QED BY <1>1, <1>2, <1>6, <1>7, <1>9, <1>10, <1>11, <1>12 DEF SlotInv

\* A lookup moves the caller's key to the back of its cache, or adds it there
\* with a free slot.
LEMMA LookupIs ==
  ASSUME TypeOK, NEW c \in Callers, Lookup(c)
  PROVE  \E s \in SlotIds :
    LET r == call[c].router
        e == [key |-> KeyOf(c), slot |-> s]
    IN  /\ call[c].pc = "lookup" /\ call[c].slot = NoSlot /\ r \in 1..Routers
        /\ call' = [call EXCEPT ![c].pc = "get", ![c].slot = s]
        /\ cache' = [q \in 1..Routers |-> cache'[q]]
        /\ \A q \in 1..Routers : /\ LruOK(cache'[q])
                                 /\ q # r => cache'[q] = cache[q]
                                 /\ Len(cache[q]) = Capacity => Len(cache'[q]) = Capacity
        /\ e \in Range(cache'[r]) /\ Range(cache'[r]) \subseteq Range(cache[r]) \cup {e}
        /\ Len(cache'[r]) = Capacity \/ Range(cache[r]) \subseteq Range(cache'[r])
        /\ e \in Range(cache[r]) \/ s \notin Held(cache, call)
        /\ slots' = Collect(cache', call', slots)
<1> DEFINE r == call[c].router
           key == KeyOf(c)
           l == cache[r]
           hits == Positions(r, key)
           h == Min(hits)
           s == IF hits # {} THEN l[h].slot ELSE Fresh
           e == [key |-> key, slot |-> s]
           kept == IF hits # {} THEN RemoveAt(l, h)
                   ELSE IF Len(l) >= Capacity THEN Tail(l) ELSE l
<1>1. /\ call[c].pc = "lookup"
      /\ call' = [call EXCEPT ![c].pc = "get", ![c].slot = s]
      /\ cache' = [cache EXCEPT ![r] = Append(kept, e)]
      /\ slots' = Collect(cache', call', slots)
  BY Zenon DEF Lookup, KeyOf
<1>2. CallOK(call[c]) /\ cache = [q \in 1..Routers |-> cache[q]]
      /\ \A q \in 1..Routers : LruOK(cache[q])
  BY DEF TypeOK, HeapOK
<1>3. r \in 1..Routers /\ call[c].slot = NoSlot
  BY <1>1, <1>2 DEF CallOK
<1>4. /\ LruOK(l) /\ Len(l) \in Nat /\ DOMAIN l = 1..Len(l)
      /\ \A x : x \in Range(l) <=> \E i \in 1..Len(l) : l[i] = x
      /\ Capacity \in Nat /\ Capacity > 0 /\ Len(l) <= Capacity
  BY <1>2, <1>3, LruFacts
<1> DEFINE t == Append(kept, e)
<1>5. /\ s \in SlotIds /\ LruOK(t) /\ e \in Range(t) /\ Range(t) \subseteq Range(l) \cup {e}
      /\ Len(l) = Capacity => Len(t) = Capacity
      /\ Len(t) = Capacity \/ Range(l) \subseteq Range(t)
      /\ e \in Range(l) \/ s \notin Held(cache, call)
  <2>1. CASE hits # {}
    <3>1. hits \in SUBSET Nat /\ hits \subseteq DOMAIN l
      BY <1>4 DEF Positions
    <3>2. h \in hits
      BY <2>1, <3>1, MinIsLeast
    <3>3. h \in DOMAIN l /\ l[h].key = key
      BY <3>2 DEF Positions
    <3>4. l[h] \in Range(l)
      BY <1>4, <3>3
    <3>5. l[h] = [key |-> l[h].key, slot |-> l[h].slot] /\ l[h].slot \in SlotIds
      BY <1>4, <3>4 DEF LruOK
    <3>6. s = l[h].slot
      BY <2>1
    <3>7. e = l[h]
      BY <3>3, <3>5, <3>6
    <3>8. kept = RemoveAt(l, h)
      BY <2>1
    <3> HIDE DEF h, hits, l, key, s, kept, e
    <3>9. t = Append(RemoveAt(l, h), l[h])
      BY <3>7, <3>8
    <3>10. LruOK(t) /\ Range(t) = Range(l) /\ Len(t) = Len(l)
      BY <1>4, <3>3, <3>9, Touched
    <3> QED BY <3>4, <3>5, <3>6, <3>7, <3>10
  <2>2. CASE hits = {}
    <3>1. \A x \in Range(l) : x.key # key
      BY <1>4, <2>2 DEF Positions
    <3>2. s = Fresh
      BY <2>2
    <3>3. s \in SlotIds /\ s \notin Held(cache, call)
      BY <1>3, <3>2, FreshIsFree
    <3>4. e = [key |-> e.key, slot |-> e.slot] /\ e.slot \in SlotIds /\ e.key = key
      BY <3>3
    <3>5. kept = IF Len(l) >= Capacity THEN Tail(l) ELSE l
      BY <2>2
    <3> HIDE DEF h, hits, l, key, s, kept, e
    <3>6. CASE Len(l) >= Capacity
      <4>1. /\ LruOK(kept) /\ Range(kept) \subseteq Range(l) /\ Len(kept) = Len(l) - 1
        BY <1>4, <3>5, <3>6, Evicted
      <4>2. Len(kept) < Capacity /\ \A x \in Range(kept) : x.key # e.key
        BY <1>4, <3>1, <3>4, <4>1
      <4>3. LruOK(t) /\ Range(t) = Range(kept) \cup {e} /\ Len(t) = Len(kept) + 1
        BY <3>4, <4>1, <4>2, Inserted
      <4> HIDE DEF t
      <4>a. Len(l) \in Nat /\ Capacity \in Nat /\ Len(l) <= Capacity
        BY <1>4
      <4>b. Len(kept) = Len(l) - 1
        BY <4>1
      <4>c. Len(t) = Len(kept) + 1
        BY <4>3
      <4>4. Len(t) = Capacity
        BY <3>6, <4>a, <4>b, <4>c
      <4> QED BY <3>3, <4>1, <4>3, <4>4
    <3>7. CASE ~(Len(l) >= Capacity)
      <4>1. kept = l /\ Len(l) < Capacity
        BY <1>4, <3>5, <3>7
      <4>2. LruOK(t) /\ Range(t) = Range(l) \cup {e} /\ Len(t) = Len(l) + 1
        BY <1>4, <3>1, <3>4, <4>1, Inserted
      <4> QED BY <3>3, <4>1, <4>2
    <3> QED BY <3>6, <3>7
  <2> QED BY <2>1, <2>2
<1> HIDE DEF hits, h, s, kept
<1>6. cache' = [q \in 1..Routers |-> IF q = r THEN t ELSE cache[q]]
  BY <1>1, <1>2
<1>7. cache'[r] = t /\ \A q \in 1..Routers : q # r => cache'[q] = cache[q]
  BY <1>3, <1>6
<1>8. cache' = [q \in 1..Routers |-> cache'[q]]
  BY <1>6
<1>9. \A q \in 1..Routers : /\ LruOK(cache'[q])
                            /\ q # r => cache'[q] = cache[q]
                            /\ Len(cache[q]) = Capacity => Len(cache'[q]) = Capacity
  <2>1. ASSUME NEW q \in 1..Routers
        PROVE  LruOK(cache'[q]) /\ (Len(cache[q]) = Capacity => Len(cache'[q]) = Capacity)
    <3>1. CASE q = r
      BY <1>5, <1>7, <3>1
    <3>2. CASE q # r
      BY <1>2, <1>7, <3>2
    <3> QED BY <3>1, <3>2
  <2> QED BY <1>7, <2>1
<1> HIDE DEF t
<1>10. /\ e \in Range(cache'[r]) /\ Range(cache'[r]) \subseteq Range(cache[r]) \cup {e}
       /\ Len(cache'[r]) = Capacity \/ Range(cache[r]) \subseteq Range(cache'[r])
       /\ e \in Range(cache[r]) \/ s \notin Held(cache, call)
  BY <1>5, <1>7
<1>11. s \in SlotIds
  BY <1>5
<1> QED BY <1>1, <1>3, <1>8, <1>9, <1>10, <1>11

\* The slots after a lookup.
LEMMA LookedUp ==
  ASSUME TypeOK, SlotInv, setup' = setup, NEW c \in Callers, Lookup(c)
  PROVE  /\ HeapOK' /\ SlotInv'
         /\ \A p \in Claims' : (p \in Claims)
              \/ (p.key = KeyOf(c) /\ slots'[p.slot].state = "empty")
         /\ \A p \in Claims' : slots'[p.slot] = slots[p.slot]
         /\ \A d \in Callers : /\ d # c => call'[d] = call[d]
                               /\ call'[d].snap = call[d].snap
<1> DEFINE r == call[c].router
<1>1. PICK s \in SlotIds :
        LET e == [key |-> KeyOf(c), slot |-> s]
        IN  /\ call[c].pc = "lookup" /\ call[c].slot = NoSlot /\ r \in 1..Routers
            /\ call' = [call EXCEPT ![c].pc = "get", ![c].slot = s]
            /\ cache' = [q \in 1..Routers |-> cache'[q]]
            /\ \A q \in 1..Routers : /\ LruOK(cache'[q])
                                     /\ q # r => cache'[q] = cache[q]
                                     /\ Len(cache[q]) = Capacity => Len(cache'[q]) = Capacity
            /\ e \in Range(cache'[r]) /\ Range(cache'[r]) \subseteq Range(cache[r]) \cup {e}
            /\ Len(cache'[r]) = Capacity \/ Range(cache[r]) \subseteq Range(cache'[r])
            /\ e \in Range(cache[r]) \/ s \notin Held(cache, call)
            /\ slots' = Collect(cache', call', slots)
  BY LookupIs
<1> DEFINE e == [key |-> KeyOf(c), slot |-> s]
           new == [router |-> r, key |-> KeyOf(c), slot |-> s]
<1>2. /\ call = [d \in Callers |-> call[d]] /\ \A d \in Callers : CallOK(call[d])
  BY DEF TypeOK, HeapOK
<1>3. call[c] = [pc |-> call[c].pc, router |-> call[c].router, dep |-> call[c].dep,
                 snap |-> call[c].snap, slot |-> call[c].slot]
  BY <1>2 DEF CallOK
<1>4. call'[c] = [pc |-> "get", router |-> r, dep |-> call[c].dep,
                  snap |-> call[c].snap, slot |-> s]
  BY <1>1, <1>2, <1>3
<1>5. /\ call' = [d \in Callers |-> call'[d]]
      /\ \A d \in Callers : d # c => call'[d] = call[d]
  BY <1>1, <1>2
<1>6. CallOK(call'[c])
  BY <1>1, <1>2, <1>4 DEF CallOK
<1>7. /\ slots' = [x \in SlotIds |-> slots'[x]]
      /\ \A x \in SlotIds : SlotOK(slots'[x])
      /\ FreeIsEmpty'
      /\ \A x \in SlotIds : x \in Held(cache, call)' => slots'[x] = slots[x]
  BY <1>1, CollectIs
<1>8. HeapOK'
  <2>1. Routers' = Routers
    BY DEF Routers
  <2>2. \A d \in Callers : CallOK(call[d])'
    <3>1. ASSUME NEW d \in Callers PROVE CallOK(call'[d])
      BY <1>2, <1>5, <1>6
    <3>2. ASSUME NEW d \in Callers PROVE CallOK(call[d])' <=> CallOK(call'[d])
      BY DEF CallOK, Routers
    <3> QED BY <3>1, <3>2
  <2>3. cache' = [q \in 1..Routers |-> cache'[q]] /\ \A q \in 1..Routers : LruOK(cache'[q])
    BY <1>1
  <2> HIDE DEF r
  <2> QED BY <1>5, <1>7, <2>1, <2>2, <2>3 DEF HeapOK
<1>9. \A p \in Claims' : p \in Claims \/ p = new
  <2> SUFFICES ASSUME NEW p \in Claims' PROVE p \in Claims \/ p = new
    OBVIOUS
  <2>1. CASE \E q \in 1..Routers : \E x \in Range(cache'[q]) :
               p = [router |-> q, key |-> x.key, slot |-> x.slot]
    <3>1. PICK q \in 1..Routers : \E x \in Range(cache'[q]) :
               p = [router |-> q, key |-> x.key, slot |-> x.slot]
      BY <2>1
    <3>2. PICK x \in Range(cache'[q]) : p = [router |-> q, key |-> x.key, slot |-> x.slot]
      BY <3>1
    <3>3. x \in Range(cache[q]) \/ (q = r /\ x = e)
      BY <1>1
    <3>4. CASE x \in Range(cache[q])
      BY <3>2, <3>4, ClaimsAre
    <3>5. CASE q = r /\ x = e
      BY <3>2, <3>5
    <3> QED BY <3>3, <3>4, <3>5
  <2>2. CASE \E d \in Callers :
         /\ call'[d].slot # NoSlot
         /\ p = [router |-> call'[d].router, key |-> Key(call'[d].dep, call'[d].snap),
                 slot |-> call'[d].slot]
    <3>1. PICK d \in Callers :
         /\ call'[d].slot # NoSlot
         /\ p = [router |-> call'[d].router, key |-> Key(call'[d].dep, call'[d].snap),
                 slot |-> call'[d].slot]
      BY <2>2
    <3>2. CASE d = c
      BY <1>4, <3>1, <3>2 DEF KeyOf
    <3>3. CASE d # c
      <4>1. call'[d] = call[d]
        BY <1>5, <3>3
      <4>2. /\ call[d].slot # NoSlot
            /\ p = [router |-> call[d].router, key |-> KeyOf(d), slot |-> call[d].slot]
        BY <3>1, <4>1 DEF KeyOf
      <4> QED BY <4>2, ClaimsAre
    <3> QED BY <3>2, <3>3
  <2> QED BY <2>1, <2>2, ClaimsAfter
<1>10. new \in Claims \/ s \notin Held(cache, call)
  <2>1. ASSUME e \in Range(cache[r]) PROVE new \in Claims
    <3>1. new = [router |-> r, key |-> e.key, slot |-> e.slot]
      OBVIOUS
    <3> QED BY <1>1, <2>1, <3>1, ClaimsAre
  <2> QED BY <1>1, <2>1
<1>11. \A p \in Claims : p.slot \in SlotIds /\ p.slot \in Held(cache, call)
  BY ClaimsHold DEF TypeOK
<1>12. \A p \in Claims' : p.slot \in SlotIds /\ slots'[p.slot] = slots[p.slot]
  <2>1. (HeapOK => \A p \in Claims : p.slot \in SlotIds /\ p.slot \in Held(cache, call))'
    BY ClaimsHold, PTL
  <2>2. SlotIds' = SlotIds
    BY DEF SlotIds
  <2> QED BY <1>7, <1>8, <2>1, <2>2
<1>13. s \notin Held(cache, call) => slots[s] = EmptySlot
  BY DEF SlotInv, FreeIsEmpty
<1>14. \A p \in Claims' : \/ p \in Claims
                          \/ p = new /\ slots'[p.slot] = EmptySlot /\ s \notin Held(cache, call)
  <2>1. new.slot = s
    OBVIOUS
  <2> HIDE DEF new
  <2> QED BY <1>9, <1>10, <1>12, <1>13, <2>1
<1>15. OneClaim'
  <2>1. \A p, q \in Claims : p.slot = q.slot => p = q
    BY DEF SlotInv, OneClaim
  <2>2. new.slot = s
    OBVIOUS
  <2> HIDE DEF new
  <2>3. \A p, q \in Claims' : p.slot = q.slot => p = q
    BY <1>11, <1>14, <2>1, <2>2
  <2> QED BY <2>3 DEF OneClaim
<1>16. StatesTell'
  <2>1. \A p \in Claims :
          /\ slots[p.slot].state = "ready" => p.router \notin setup.failing
          /\ slots[p.slot].state = "failed" => p.router \in setup.failing
    BY DEF SlotInv, StatesTell
  <2>2. EmptySlot.state = "empty"
    BY DEF EmptySlot
  <2> HIDE DEF new
  <2>3. \A p \in Claims' :
          /\ slots'[p.slot].state = "ready" => p.router \notin setup'.failing
          /\ slots'[p.slot].state = "failed" => p.router \in setup'.failing
    BY <1>12, <1>14, <2>1, <2>2
  <2> QED BY <2>3 DEF StatesTell
<1>17. BuildersAlone'
  <2>2. ASSUME NEW d \in Callers, call'[d].pc = "building"
        PROVE  /\ call'[d] = call[d] /\ call[d].slot \in SlotIds
               /\ slots'[call[d].slot] = slots[call[d].slot]
    <3>1. call'[d] = call[d]
      BY <1>4, <1>5, <2>2
    <3>2. call[d].slot \in SlotIds
      BY <1>2, <2>2, <3>1 DEF CallOK
    <3>3. call[d].slot \in Held(cache, call)'
      BY <3>1, HeldIs DEF Held
    <3> QED BY <1>7, <3>1, <3>2, <3>3
  <2>3. /\ \A d \in Callers : call[d].pc = "building" => slots[call[d].slot].state = "building"
        /\ \A d, b \in Callers : (/\ call[d].pc = "building" /\ call[b].pc = "building"
                                  /\ call[d].slot = call[b].slot) => d = b
    BY DEF SlotInv, BuildersAlone
  <2>4. ASSUME NEW d \in Callers, call'[d].pc = "building"
        PROVE  slots'[call'[d].slot].state = "building"
    <3>1. call'[d] = call[d] /\ slots'[call[d].slot] = slots[call[d].slot]
      BY <2>2, <2>4
    <3>2. slots[call[d].slot].state = "building"
      BY <2>3, <2>4, <3>1
    <3> QED BY <3>1, <3>2
  <2>5. ASSUME NEW d \in Callers, NEW b \in Callers, call'[d].pc = "building",
               call'[b].pc = "building", call'[d].slot = call'[b].slot
        PROVE  d = b
    BY <2>2, <2>3, <2>5
  <2> QED BY <2>4, <2>5 DEF BuildersAlone
<1>18. \A p \in Claims' : p \in Claims \/ (p.key = KeyOf(c) /\ slots'[p.slot].state = "empty")
  <2>1. new.key = KeyOf(c) /\ EmptySlot.state = "empty"
    BY DEF EmptySlot
  <2> HIDE DEF new
  <2> QED BY <1>14, <2>1
<1>19. \A d \in Callers : call'[d].snap = call[d].snap
  BY <1>4, <1>5
<1> HIDE DEF r, e, new
<1> QED BY <1>5, <1>7, <1>8, <1>12, <1>15, <1>16, <1>17, <1>18, <1>19 DEF SlotInv

\* A build writes its slot and nothing else.
LEMMA SlotWritten ==
  ASSUME TypeOK, SlotInv, setup' = setup, NEW c \in Callers, call[c].slot \in SlotIds,
         NEW x, SlotOK(x), NEW pc \in {"get", "building"}, cache' = cache,
         call[c].pc \in {"get", "building"},
         slots' = [slots EXCEPT ![call[c].slot] = x], call' = [call EXCEPT ![c].pc = pc]
  PROVE  /\ HeapOK' /\ Claims' = Claims /\ OneClaim' /\ FreeIsEmpty'
         /\ slots'[call[c].slot] = x
         /\ \A s \in SlotIds : s # call[c].slot => slots'[s] = slots[s]
         /\ call'[c].pc = pc /\ \A d \in Callers : d # c => call'[d] = call[d]
         /\ \A d \in Callers : /\ call'[d].slot = call[d].slot /\ call'[d].snap = call[d].snap
                               /\ call'[d].router = call[d].router
<1>1. /\ call = [d \in Callers |-> call[d]] /\ \A d \in Callers : CallOK(call[d])
      /\ slots = [s \in SlotIds |-> slots[s]] /\ \A s \in SlotIds : SlotOK(slots[s])
      /\ cache = [r \in 1..Routers |-> cache[r]] /\ \A r \in 1..Routers : LruOK(cache[r])
  BY DEF TypeOK, HeapOK
<1>2. call[c] = [pc |-> call[c].pc, router |-> call[c].router, dep |-> call[c].dep,
                 snap |-> call[c].snap, slot |-> call[c].slot]
  BY <1>1 DEF CallOK
<1>3. call'[c] = [pc |-> pc, router |-> call[c].router, dep |-> call[c].dep,
                  snap |-> call[c].snap, slot |-> call[c].slot]
  BY <1>1, <1>2
<1>4. /\ call' = [d \in Callers |-> call'[d]]
      /\ \A d \in Callers : d # c => call'[d] = call[d]
  BY <1>1
<1>5. \A d \in Callers : /\ call'[d].slot = call[d].slot /\ call'[d].snap = call[d].snap
                         /\ call'[d].router = call[d].router /\ call'[d].dep = call[d].dep
  BY <1>3, <1>4
<1>6. /\ slots' = [s \in SlotIds |-> slots'[s]] /\ slots'[call[c].slot] = x
      /\ \A s \in SlotIds : s # call[c].slot => slots'[s] = slots[s]
  BY <1>1
<1>7. \A s \in SlotIds : SlotOK(slots'[s])
  BY <1>1, <1>6
<1>8. CallOK(call'[c])
  BY <1>1, <1>3 DEF CallOK
<1>9. HeapOK'
  <2>1. Routers' = Routers
    BY DEF Routers
  <2>2. \A d \in Callers : CallOK(call[d])'
    <3>1. ASSUME NEW d \in Callers PROVE CallOK(call'[d])
      BY <1>1, <1>4, <1>8
    <3>2. ASSUME NEW d \in Callers PROVE CallOK(call[d])' <=> CallOK(call'[d])
      BY DEF CallOK, Routers
    <3> QED BY <3>1, <3>2
  <2> QED BY <1>1, <1>4, <1>6, <1>7, <2>1, <2>2 DEF HeapOK
<1>10. \A p : p \in Claims' <=> p \in Claims
  <2>1. \A d \in Callers : Key(call'[d].dep, call'[d].snap) = KeyOf(d)
    BY <1>5 DEF KeyOf
  <2> QED BY <1>5, <2>1, ClaimsAre, ClaimsAfter
<1>11. Claims' = Claims
  BY <1>10
<1>12. OneClaim'
  BY <1>11 DEF SlotInv, OneClaim
<1>13. FreeIsEmpty'
  <2>1. \A s : s \in Held(cache, call)' <=> s \in Held(cache, call)
    <3>1. Held(cache, call)' = Held(cache', call')
      BY DEF Held, Routers
    <3>2. \A s : (\E d \in Callers : call'[d].slot = s) <=> (\E d \in Callers : call[d].slot = s)
      BY <1>5
    <3>3. \A s : s \in Held(cache, call') <=>
            \/ \E r \in 1..Routers : \E e \in Range(cache[r]) : e.slot = s
            \/ \E d \in Callers : call'[d].slot = s
      <4>1. PICK calls : calls = call'
        OBVIOUS
      <4>2. \A s : s \in Held(cache, calls) <=>
              \/ \E r \in 1..Routers : \E e \in Range(cache[r]) : e.slot = s
              \/ \E d \in Callers : calls[d].slot = s
        BY HeldIs
      <4> QED BY <4>1, <4>2
    <3>4. \A s : s \in Held(cache, call) <=>
            \/ \E r \in 1..Routers : \E e \in Range(cache[r]) : e.slot = s
            \/ \E d \in Callers : call[d].slot = s
      BY HeldIs
    <3>5. Held(cache, call)' = Held(cache, call')
      BY <3>1
    <3> QED BY <3>2, <3>3, <3>4, <3>5
  <2>2. call[c].slot \in Held(cache, call)
    BY HeldIs
  <2>3. \A s \in SlotIds : s \notin Held(cache, call) => slots[s] = EmptySlot
    BY DEF SlotInv, FreeIsEmpty
  <2>4. \A s \in SlotIds : s \notin Held(cache, call)' => slots'[s] = EmptySlot
    BY <1>6, <2>1, <2>2, <2>3
  <2>5. SlotIds' = SlotIds /\ EmptySlot' = EmptySlot
    BY DEF SlotIds, EmptySlot
  <2> QED BY <2>4, <2>5 DEF FreeIsEmpty
<1> QED BY <1>3, <1>4, <1>5, <1>6, <1>9, <1>11, <1>12, <1>13

\* The claim of a caller that holds a slot.
LEMMA CallersClaim ==
  ASSUME NEW c \in Callers, call[c].slot # NoSlot
  PROVE  [router |-> call[c].router, key |-> KeyOf(c), slot |-> call[c].slot] \in Claims
BY ClaimsAre

LEMMA BuildBegun ==
  ASSUME TypeOK, SlotInv, setup' = setup, NEW c \in Callers, BeginBuild(c)
  PROVE  /\ HeapOK' /\ SlotInv' /\ Claims' = Claims
         /\ slots'[call[c].slot].state = "building"
         /\ \A s \in SlotIds : s # call[c].slot => slots'[s] = slots[s]
         /\ \A d \in Callers : /\ call'[d].slot = call[d].slot /\ call'[d].snap = call[d].snap
                               /\ call'[d].router = call[d].router /\ (d # c => call'[d] = call[d])
         /\ call[c].slot \in SlotIds /\ slots[call[c].slot].state = "empty" /\ call'[c].pc = "building"
<1> DEFINE s == call[c].slot
           x == [slots[s] EXCEPT !.state = "building"]
<1>1. /\ call[c].pc = "get" /\ slots[s].state = "empty" /\ cache' = cache
      /\ slots' = [slots EXCEPT ![s].state = "building"]
      /\ call' = [call EXCEPT ![c].pc = "building"]
  BY DEF BeginBuild
<1>2. /\ \A d \in Callers : CallOK(call[d])
      /\ slots = [z \in SlotIds |-> slots[z]] /\ \A z \in SlotIds : SlotOK(slots[z])
  BY DEF TypeOK, HeapOK
<1>3. s \in SlotIds
  BY <1>1, <1>2 DEF CallOK
<1>4. slots[s] = [state |-> slots[s].state, engine |-> slots[s].engine]
  BY <1>2, <1>3 DEF SlotOK
<1>5. slots' = [slots EXCEPT ![s] = x]
  BY <1>1
<1>6. SlotOK(x) /\ x.state = "building"
  <2>1. x = [state |-> "building", engine |-> slots[s].engine]
    BY <1>4
  <2> HIDE DEF x
  <2> QED BY <2>1 DEF SlotOK
<1> HIDE DEF x
<1>7. /\ HeapOK' /\ Claims' = Claims /\ OneClaim' /\ FreeIsEmpty'
      /\ slots'[s] = x
      /\ \A z \in SlotIds : z # s => slots'[z] = slots[z]
      /\ call'[c].pc = "building" /\ \A d \in Callers : d # c => call'[d] = call[d]
      /\ \A d \in Callers : /\ call'[d].slot = call[d].slot /\ call'[d].snap = call[d].snap
                            /\ call'[d].router = call[d].router
  BY <1>1, <1>3, <1>5, <1>6, SlotWritten
<1>8. /\ \A d \in Callers : call[d].pc = "building" => slots[call[d].slot].state = "building"
      /\ \A d, b \in Callers : (/\ call[d].pc = "building" /\ call[b].pc = "building"
                                /\ call[d].slot = call[b].slot) => d = b
  BY DEF SlotInv, BuildersAlone
<1>9. \A d \in Callers : call[d].pc = "building" => call[d].slot \in SlotIds /\ call[d].slot # s
  <2>1. ASSUME NEW d \in Callers, call[d].pc = "building" PROVE call[d].slot \in SlotIds
    BY <1>2, <2>1 DEF CallOK
  <2> QED BY <1>1, <1>8, <2>1
<1>10. BuildersAlone'
  <2>1. ASSUME NEW d \in Callers, call'[d].pc = "building"
        PROVE  slots'[call'[d].slot].state = "building"
    BY <1>6, <1>7, <1>8, <1>9, <2>1
  <2>2. ASSUME NEW d \in Callers, NEW b \in Callers, call'[d].pc = "building",
               call'[b].pc = "building", call'[d].slot = call'[b].slot
        PROVE  d = b
    BY <1>7, <1>8, <1>9, <2>2
  <2> QED BY <2>1, <2>2 DEF BuildersAlone
<1>11. StatesTell'
  <2>1. \A p \in Claims :
          /\ slots[p.slot].state = "ready" => p.router \notin setup.failing
          /\ slots[p.slot].state = "failed" => p.router \in setup.failing
    BY DEF SlotInv, StatesTell
  <2>2. \A p \in Claims : p.slot \in SlotIds
    BY ClaimsHold DEF TypeOK
  <2>3. \A p \in Claims' :
          /\ slots'[p.slot].state = "ready" => p.router \notin setup'.failing
          /\ slots'[p.slot].state = "failed" => p.router \in setup'.failing
    BY <1>6, <1>7, <2>1, <2>2
  <2> QED BY <2>3 DEF StatesTell
<1> QED BY <1>1, <1>3, <1>6, <1>7, <1>10, <1>11 DEF SlotInv

LEMMA BuildEnded ==
  ASSUME TypeOK, SlotInv, setup' = setup, NEW c \in Callers, EndBuild(c)
  PROVE  /\ HeapOK' /\ SlotInv' /\ Claims' = Claims
         /\ \A s \in SlotIds : s # call[c].slot => slots'[s] = slots[s]
         /\ slots'[call[c].slot].state = "ready" =>
              slots'[call[c].slot].engine = EngineFor(KeyOf(c), call[c].snap)
         /\ \A d \in Callers : /\ call'[d].slot = call[d].slot /\ call'[d].snap = call[d].snap
                               /\ call'[d].router = call[d].router /\ (d # c => call'[d] = call[d])
         /\ call[c].slot \in SlotIds /\ slots[call[c].slot].state = "building" /\ call'[c].pc = "get"
<1> DEFINE s == call[c].slot
           x == IF call[c].router \in setup.failing
                THEN [state |-> "failed", engine |-> NoEngine]
                ELSE [state |-> "ready", engine |-> EngineFor(KeyOf(c), call[c].snap)]
<1>1. /\ call[c].pc = "building" /\ cache' = cache
      /\ slots' = [slots EXCEPT ![s] = x]
      /\ call' = [call EXCEPT ![c].pc = "get"]
  BY DEF EndBuild, KeyOf
<1>2. \A d \in Callers : CallOK(call[d])
  BY DEF TypeOK, HeapOK
<1>3. s \in SlotIds /\ s # NoSlot
  BY <1>1, <1>2, SlotIdsAre DEF CallOK
<1>4. /\ SlotOK(x) /\ x.state \in {"ready", "failed"}
      /\ x.state = "ready" <=> call[c].router \notin setup.failing
      /\ x.state = "ready" => x.engine = EngineFor(KeyOf(c), call[c].snap)
  BY DEF SlotOK
<1> HIDE DEF x
<1>7. /\ HeapOK' /\ Claims' = Claims /\ OneClaim' /\ FreeIsEmpty'
      /\ slots'[s] = x
      /\ \A z \in SlotIds : z # s => slots'[z] = slots[z]
      /\ call'[c].pc = "get" /\ \A d \in Callers : d # c => call'[d] = call[d]
      /\ \A d \in Callers : /\ call'[d].slot = call[d].slot /\ call'[d].snap = call[d].snap
                            /\ call'[d].router = call[d].router
  BY <1>1, <1>3, <1>4, SlotWritten
<1>8. /\ \A d \in Callers : call[d].pc = "building" => slots[call[d].slot].state = "building"
      /\ \A d, b \in Callers : (/\ call[d].pc = "building" /\ call[b].pc = "building"
                                /\ call[d].slot = call[b].slot) => d = b
  BY DEF SlotInv, BuildersAlone
<1>9. \A d \in Callers : d # c /\ call[d].pc = "building" =>
                           call[d].slot \in SlotIds /\ call[d].slot # s
  <2>1. ASSUME NEW d \in Callers, call[d].pc = "building" PROVE call[d].slot \in SlotIds
    BY <1>2, <2>1 DEF CallOK
  <2> QED BY <1>1, <1>8, <2>1
<1>10. BuildersAlone'
  <2>1. ASSUME NEW d \in Callers, call'[d].pc = "building"
        PROVE  slots'[call'[d].slot].state = "building"
    BY <1>7, <1>8, <1>9, <2>1
  <2>2. ASSUME NEW d \in Callers, NEW b \in Callers, call'[d].pc = "building",
               call'[b].pc = "building", call'[d].slot = call'[b].slot
        PROVE  d = b
    BY <1>7, <1>8, <1>9, <2>2
  <2> QED BY <2>1, <2>2 DEF BuildersAlone
<1>11. StatesTell'
  <2>1. \A p \in Claims :
          /\ slots[p.slot].state = "ready" => p.router \notin setup.failing
          /\ slots[p.slot].state = "failed" => p.router \in setup.failing
    BY DEF SlotInv, StatesTell
  <2>2. \A p \in Claims : p.slot \in SlotIds
    BY ClaimsHold DEF TypeOK
  <2>3. \A p \in Claims : p.slot = s => p.router = call[c].router
    <3>1. [router |-> call[c].router, key |-> KeyOf(c), slot |-> call[c].slot] \in Claims
      BY <1>3, CallersClaim
    <3>2. \A p, q \in Claims : p.slot = q.slot => p = q
      BY DEF SlotInv, OneClaim
    <3> QED BY <3>1, <3>2
  <2>4. \A p \in Claims' :
          /\ slots'[p.slot].state = "ready" => p.router \notin setup'.failing
          /\ slots'[p.slot].state = "failed" => p.router \in setup'.failing
    BY <1>4, <1>7, <2>1, <2>2, <2>3
  <2> QED BY <2>4 DEF StatesTell
<1> QED BY <1>1, <1>3, <1>4, <1>7, <1>8, <1>10, <1>11 DEF SlotInv

-----------------------------------------------------------------------------
(* Snapshots, keys and engines over a step.                                *)

CoreInv ==
  TypeOK /\ WorkerOK /\ VersionsDiffer /\ NobodyAhead /\ SlotInv /\ EnginesGood /\ KeysBehind

LEMMA NoSnapshotOK == SnapshotOK(NoSnapshot) /\ SnapshotOK(NoSnapshot)'
BY DEF SnapshotOK, NoSnapshot, NoEntries

\* Applying updates never names a feature that does not exist.
LEMMA NextSnapshotOK ==
  ASSUME SnapshotOK(live)
  PROVE  SnapshotOK(NextSnapshot) /\ NextSnapshot.version = live.version + 1
<1>1. ASSUME NEW at, NEW es, DOMAIN es \in SUBSET Features, NEW updates, NEW replace
      PROVE  DOMAIN NextEntries(at, es, updates, replace) \in SUBSET Features
  <2> DEFINE base == IF replace THEN NoEntries ELSE Unexpired(at, es)
             set == {f \in Named(updates) \cap WithEdges : LastFor(f, updates).value # Clear}
  <2>1. DOMAIN base \subseteq Features
    <3>1. DOMAIN NoEntries = {}
      BY DEF NoEntries
    <3>2. DOMAIN Unexpired(at, es) \subseteq DOMAIN es
      BY DEF Unexpired, Restrict
    <3> QED BY <1>1, <3>1, <3>2
  <2>2. set \subseteq Features
    BY WithEdgesAssumption
  <2>3. DOMAIN NextEntries(at, es, updates, replace) = (DOMAIN base \ Named(updates)) \cup set
    BY DEF NextEntries
  <2> HIDE DEF base, set
  <2> QED BY <2>1, <2>2, <2>3
<1>2. DOMAIN live.entries \in SUBSET Features /\ live.version \in Nat
  BY DEF SnapshotOK
<1>3. PICK updates : updates = Updates
  OBVIOUS
<1>4. PICK replace : replace = (Replacing # {})
  OBVIOUS
<1>5. PICK es : es = live.entries
  OBVIOUS
<1>6. PICK at : at = now
  OBVIOUS
<1>7. DOMAIN NextEntries(at, es, updates, replace) \in SUBSET Features
  BY <1>1, <1>2, <1>5
<1>8. NextSnapshot = [version |-> live.version + 1,
                      entries |-> NextEntries(at, es, updates, replace)]
  BY <1>3, <1>4, <1>5, <1>6 DEF NextSnapshot
<1> HIDE DEF NextSnapshot
<1> QED BY <1>2, <1>7, <1>8 DEF SnapshotOK

LEMMA InUseIs ==
  /\ \A S : S \in InUse <=> S = NoSnapshot \/ S = live \/ \E c \in Callers : call[c].snap = S
  /\ \A c \in Callers : call[c].snap \in InUse
BY DEF InUse

LEMMA InUseAfter ==
  \A S : S \in InUse' <=> S = NoSnapshot \/ S = live' \/ \E c \in Callers : call'[c].snap = S
<1>1. NoSnapshot' = NoSnapshot /\ Callers' = Callers
  BY DEF NoSnapshot, NoEntries, Callers
<1> QED BY <1>1 DEF InUse

\* Engines that were good stay good as long as no snapshot comes into use
\* under a version that some key has.
LEMMA EnginesStay ==
  ASSUME EnginesGood, setup' = setup,
         \A p \in Claims' : slots'[p.slot].state = "ready" =>
                              p \in Claims /\ slots'[p.slot] = slots[p.slot],
         \A S \in InUse' : \/ S \in InUse
                           \/ \A p \in Claims : p.key.active # {} => S.version # p.key.version
  PROVE  EnginesGood'
<1> SUFFICES ASSUME setup.failing = {}, NEW p \in Claims', slots'[p.slot].state = "ready"
             PROVE  GoodEngine(p.key, slots[p.slot].engine)'
  BY DEF EnginesGood
<1> DEFINE g == slots[p.slot].engine
<1>1. p \in Claims /\ slots'[p.slot] = slots[p.slot]
  OBVIOUS
<1>2. GoodEngine(p.key, g)
  BY <1>1 DEF EnginesGood
<1>3. IF p.key.active = {} THEN g = [class |-> p.key.class, live |-> {}]
      ELSE \A S \in InUse : S.version = p.key.version => g = EngineFor(p.key, S)
  BY <1>2 DEF GoodEngine
<1>4. IF p.key.active = {} THEN g = [class |-> p.key.class, live |-> {}]
      ELSE \A S \in InUse' : S.version = p.key.version => g = EngineFor(p.key, S)
  BY <1>1, <1>3
<1>5. slots'[p.slot].engine = g
  BY <1>1
<1>6. \A key, S : EngineFor(key, S)' = EngineFor(key, S)
  BY DEF EngineFor, IndexIn
<1> HIDE DEF g
<1> QED BY <1>4, <1>5, <1>6 DEF GoodEngine

\* No key gets ahead.
LEMMA KeysStay ==
  ASSUME KeysBehind, NobodyAhead, WorkerOK, TypeOK, setup' = setup,
         \A p \in Claims' : p \in Claims \/ \E c \in Callers : p.key = KeyOf(c),
         live'.version \in Nat, live.version <= live'.version,
         (setup.failing = {} /\ worker.pc = "applying") =>
           \/ worker.next.version <= live'.version
           \/ worker'.pc = "applying" /\ worker'.next = worker.next
  PROVE  KeysBehind'
<1> SUFFICES ASSUME setup.failing = {}, NEW p \in Claims', p.key.active # {}
             PROVE  \/ p.key.version \in 0..live'.version
                    \/ worker'.pc = "applying" /\ p.key.version = worker'.next.version
  BY DEF KeysBehind
<1>1. /\ live.version \in Nat
      /\ \A c \in Callers : call[c].snap.version \in Nat
  BY DEF TypeOK, HeapOK, SnapshotOK, CallOK
<1>2. \/ p.key.version \in 0..live.version
      \/ worker.pc = "applying" /\ p.key.version = worker.next.version
  <2>1. CASE p \in Claims
    BY <2>1 DEF KeysBehind
  <2>2. CASE \E c \in Callers : p.key = KeyOf(c)
    <3>1. PICK c \in Callers : p.key = KeyOf(c)
      BY <2>2
    <3>2. p.key.version = call[c].snap.version
      BY <3>1, KeyIs DEF KeyOf
    <3>3. \/ call[c].snap.version <= live.version
          \/ c = Worker /\ worker.pc = "applying"
      BY DEF NobodyAhead
    <3> QED BY <1>1, <3>2, <3>3 DEF WorkerOK
  <2> QED BY <2>1, <2>2
<1>3. CASE p.key.version \in 0..live.version
  BY <1>1, <1>3
<1>4. CASE worker.pc = "applying" /\ p.key.version = worker.next.version
  <2>1. worker.next.version = live.version + 1
    BY <1>4 DEF WorkerOK
  <2>2. worker.next.version \in Nat
    BY <1>1, <2>1
  <2> QED BY <1>4, <2>2
<1> QED BY <1>2, <1>3, <1>4

-----------------------------------------------------------------------------
(* The steps keep the core of the invariant.                               *)

\* The shape of a call that begins.
CallAt(router, dep, snap) ==
  [pc |-> "lookup", router |-> router, dep |-> dep, snap |-> snap, slot |-> NoSlot]

LEMMA CallAtOK ==
  ASSUME NEW router \in 1..Routers, NEW dep, NEW snap, SnapshotOK(snap)
  PROVE  /\ CallOK(CallAt(router, dep, snap))
         /\ CallAt(router, dep, snap).slot = NoSlot
         /\ CallAt(router, dep, snap).pc = "lookup"
         /\ CallAt(router, dep, snap).snap = snap
         /\ CallAt(router, dep, snap).dep = dep
         /\ CallAt(router, dep, snap).router = router
BY DEF CallOK, CallAt

LEMMA NoCallOK ==
  /\ Routers \in Nat \ {0} => CallOK(NoCall)
  /\ NoCall.slot = NoSlot /\ NoCall.pc = "none" /\ NoCall.snap = NoSnapshot
<1>1. NoCall.slot = NoSlot /\ NoCall.pc = "none" /\ NoCall.snap = NoSnapshot
  BY DEF NoCall
<1>2. Routers \in Nat \ {0} => CallOK(NoCall)
  BY NoSnapshotOK DEF CallOK, NoCall
<1> QED BY <1>1, <1>2

CallFields == {"pc", "router", "dep", "snap", "slot"}
LEMMA CallWith ==
  ASSUME NEW router, NEW dep, NEW snap
  PROVE  [NoCall EXCEPT !.pc = "lookup", !.router = router, !.dep = dep, !.snap = snap] =
           CallAt(router, dep, snap)
<1> DEFINE y == [NoCall EXCEPT !.pc = "lookup", !.router = router, !.dep = dep, !.snap = snap]
<1>0. NoCall = [x \in CallFields |-> NoCall[x]] /\ NoCall.slot = NoSlot
  BY DEF NoCall, CallFields
<1>1. /\ y = [x \in CallFields |-> y[x]] /\ y.pc = "lookup" /\ y.router = router
      /\ y.dep = dep /\ y.snap = snap /\ y.slot = NoSlot
  BY <1>0 DEF CallFields
<1>2. CallAt(router, dep, snap) = [x \in CallFields |-> CallAt(router, dep, snap)[x]]
  BY DEF CallAt, CallFields
<1>3. /\ CallAt(router, dep, snap).pc = "lookup" /\ CallAt(router, dep, snap).router = router
      /\ CallAt(router, dep, snap).dep = dep /\ CallAt(router, dep, snap).snap = snap
      /\ CallAt(router, dep, snap).slot = NoSlot
  BY DEF CallAt
<1> HIDE DEF y
<1>4. \A x \in CallFields : y[x] = CallAt(router, dep, snap)[x]
  BY <1>1, <1>3 DEF CallFields
<1> QED BY <1>1, <1>2, <1>4 DEF y

LEMMA PrepareIs ==
  \A router, at, snap :
    Prepare(router, at, snap) => call' = [call EXCEPT ![Worker] = CallAt(router, at, snap)]
BY DEF Prepare, NoCall, CallAt

\* The loop of the worker begins a new turn.
LEMMA LoopIs ==
  ASSUME WorkerOK, NEW until, NEW snap
  PROVE  LET w == Loop(until, snap) IN w = [x \in WorkerFields |-> w[x]] /\ w.pc = "idle"
<1>1. worker = [x \in WorkerFields |-> worker[x]]
  BY DEF WorkerOK
<1>2. \A e : LET w == [worker EXCEPT !.pc = "idle", !.batch = <<>>, !.next = NoSnapshot,
                             !.at = 0, !.report = "none", !.until = until, !.event = e] IN
         w = [x \in WorkerFields |-> w[x]] /\ w.pc = "idle"
  BY <1>1 DEF WorkerFields
<1> QED BY <1>2 DEF Loop

\* A caller without a slot takes another call: nothing is freed.
LEMMA NothingFreed ==
  ASSUME TypeOK, SlotInv, NEW c \in Callers, call[c].slot = NoSlot, NEW x, x.slot = NoSlot,
         call' = [call EXCEPT ![c] = x], cache' = cache, slots' = slots, setup' = setup
  PROVE  Shrinks /\ slots' = Collect(cache', call', slots)
<1>1. /\ call = [d \in Callers |-> call[d]]
      /\ slots = [s \in SlotIds |-> slots[s]]
      /\ cache = [r \in 1..Routers |-> cache[r]] /\ \A r \in 1..Routers : LruOK(cache[r])
  BY DEF TypeOK, HeapOK
<1>2. Shrinks
  BY <1>1 DEF Shrinks
<1>3. \A d \in Callers : call'[d].slot = call[d].slot
  BY <1>1
<1>4. PICK calls : calls = call'
  OBVIOUS
<1>5. \A s : s \in Held(cache, calls) <=> s \in Held(cache, call)
  <2>1. \A s : (\E d \in Callers : calls[d].slot = s) <=> (\E d \in Callers : call[d].slot = s)
    BY <1>3, <1>4
  <2>2. PICK calls2 : calls2 = call
    OBVIOUS
  <2>3. \A s : s \in Held(cache, calls) <=>
            \/ \E r \in 1..Routers : \E e \in Range(cache[r]) : e.slot = s
            \/ \E d \in Callers : calls[d].slot = s
    BY HeldIs
  <2>4. \A s : s \in Held(cache, call) <=>
            \/ \E r \in 1..Routers : \E e \in Range(cache[r]) : e.slot = s
            \/ \E d \in Callers : call[d].slot = s
    BY HeldIs
  <2> QED BY <2>1, <2>3, <2>4
<1>6. \A s \in SlotIds : s \notin Held(cache, call) => slots[s] = EmptySlot
  BY DEF SlotInv, FreeIsEmpty
<1>7. Collect(cache, calls, slots) =
        [s \in SlotIds |-> IF s \in Held(cache, calls) THEN slots[s] ELSE EmptySlot]
  BY DEF Collect
<1>8. [s \in SlotIds |-> IF s \in Held(cache, calls) THEN slots[s] ELSE EmptySlot] = slots
  BY <1>1, <1>5, <1>6
<1>9. slots' = Collect(cache', call', slots)
  BY <1>4, <1>7, <1>8
<1> QED BY <1>2, <1>9

\* Forgetting a failure only removes entries, and only of a router that fails.
LEMMA Forgotten ==
  ASSUME TypeOK, SlotInv, NEW c \in Callers, Settled(c), ForgetFailure(c)
  PROVE  /\ Shrinks
         /\ \A r \in 1..Routers : r \notin setup.failing => cache'[r] = cache[r]
<1> DEFINE r == call[c].router
           places == {i \in DOMAIN cache[r] : cache[r][i].slot = call[c].slot}
           t == IF Succeeded(c) \/ places = {} THEN cache[r] ELSE RemoveAt(cache[r], Min(places))
<1>1. /\ cache = [q \in 1..Routers |-> cache[q]] /\ \A q \in 1..Routers : LruOK(cache[q])
      /\ CallOK(call[c])
  BY DEF TypeOK, HeapOK
<1>2. /\ call[c].pc = "get" /\ slots[call[c].slot].state \in {"ready", "failed"}
      /\ Succeeded(c) <=> slots[call[c].slot].state = "ready"
  BY DEF Settled, Succeeded
<1>3. r \in 1..Routers /\ call[c].slot \in SlotIds /\ call[c].slot # NoSlot
  BY <1>1, <1>2, SlotIdsAre DEF CallOK
<1>4. cache' = [cache EXCEPT ![r] = t]
  BY DEF ForgetFailure
<1>5. LruOK(t) /\ Range(t) \subseteq Range(cache[r])
  <2>1. CASE Succeeded(c) \/ places = {}
    BY <1>1, <1>3, <2>1
  <2>2. CASE ~(Succeeded(c) \/ places = {})
    <3>1. LruOK(cache[r])
      BY <1>1, <1>3
    <3>2. DOMAIN cache[r] = 1..Len(cache[r]) /\ Len(cache[r]) \in Nat
      BY <3>1, LruFacts
    <3>3. places \in SUBSET Nat /\ places # {}
      BY <2>2, <3>2
    <3>4. Min(places) \in places
      BY <3>3, MinIsLeast
    <3>5. Min(places) \in DOMAIN cache[r]
      BY <3>4
    <3>6. t = RemoveAt(cache[r], Min(places))
      BY <2>2
    <3> HIDE DEF places, t, r
    <3> QED BY <3>1, <3>5, <3>6, Removed
  <2> QED BY <2>1, <2>2
<1>6. r \notin setup.failing => t = cache[r]
  <2>1. [router |-> r, key |-> KeyOf(c), slot |-> call[c].slot] \in Claims
    BY <1>3, CallersClaim
  <2>2. slots[call[c].slot].state = "failed" => r \in setup.failing
    BY <2>1 DEF SlotInv, StatesTell
  <2>3. r \notin setup.failing => Succeeded(c)
    BY <1>2, <2>2
  <2> QED BY <2>3
<1> HIDE DEF t
<1>7. cache' = [q \in 1..Routers |-> IF q = r THEN t ELSE cache[q]]
  BY <1>1, <1>4
<1>8. \A q \in 1..Routers : cache'[q] = IF q = r THEN t ELSE cache[q]
  BY <1>7
<1>9. cache' = [q \in 1..Routers |-> cache'[q]]
  BY <1>7
<1>10. Shrinks
  <2>1. ASSUME NEW q \in 1..Routers
        PROVE  LruOK(cache'[q]) /\ Range(cache'[q]) \subseteq Range(cache[q])
    <3>1. CASE q = r
      BY <1>5, <1>8, <3>1
    <3>2. CASE q # r
      BY <1>1, <1>8, <3>2
    <3> QED BY <3>1, <3>2
  <2> QED BY <1>9, <2>1 DEF Shrinks
<1> QED BY <1>6, <1>8, <1>10

\* A caller that succeeded has a router whose engines can be derived, and
\* one that failed has not.
LEMMA SettledTells ==
  ASSUME TypeOK, SlotInv, NEW c \in Callers, Settled(c)
  PROVE  Succeeded(c) <=> call[c].router \notin setup.failing
<1>1. CallOK(call[c])
  BY DEF TypeOK, HeapOK
<1>2. /\ call[c].pc = "get" /\ slots[call[c].slot].state \in {"ready", "failed"}
      /\ Succeeded(c) <=> slots[call[c].slot].state = "ready"
  BY DEF Settled, Succeeded
<1>3. call[c].slot \in SlotIds /\ call[c].slot # NoSlot
  BY <1>1, <1>2, SlotIdsAre DEF CallOK
<1>4. [router |-> call[c].router, key |-> KeyOf(c), slot |-> call[c].slot] \in Claims
  BY <1>3, CallersClaim
<1> QED BY <1>2, <1>4 DEF SlotInv, StatesTell

LEMMA InUseOK ==
  ASSUME TypeOK
  PROVE  \A S \in InUse : SnapshotOK(S)
<1>1. SnapshotOK(live) /\ \A c \in Callers : SnapshotOK(call[c].snap)
  BY DEF TypeOK, HeapOK, CallOK
<1> QED BY <1>1, NoSnapshotOK, InUseIs

\* A caller takes another call under a snapshot already in use.
LEMMA CoreReseated ==
  ASSUME CoreInv, setup' = setup, NEW c \in Callers, NEW x, CallOK(x), x.slot = NoSlot,
         call' = [call EXCEPT ![c] = x], Shrinks, slots' = Collect(cache', call', slots),
         x.snap \in InUse, live' \in InUse, live.version <= live'.version,
         (setup.failing = {} /\ worker.pc = "applying") =>
           \/ worker.next.version <= live'.version
           \/ worker'.pc = "applying" /\ worker'.next = worker.next
  PROVE  /\ TypeOK' /\ VersionsDiffer' /\ SlotInv' /\ EnginesGood' /\ KeysBehind'
         /\ call'[c] = x /\ \A d \in Callers : d # c => call'[d] = call[d]
<1>1. /\ TypeOK /\ WorkerOK /\ VersionsDiffer /\ NobodyAhead /\ SlotInv
      /\ EnginesGood /\ KeysBehind
  BY DEF CoreInv
<1>2. /\ HeapOK' /\ SlotInv' /\ Claims' \subseteq Claims
      /\ \A p \in Claims' : slots'[p.slot] = slots[p.slot]
      /\ call'[c] = x /\ \A d \in Callers : d # c => call'[d] = call[d]
  BY <1>1, Reseated
<1>3. SnapshotOK(live')
  BY <1>1, InUseOK
<1>4. TypeOK'
  BY <1>1, <1>2, <1>3 DEF TypeOK, SnapshotOK
<1>5. \A S \in InUse' : S \in InUse
  <2>1. \A d \in Callers : call'[d].snap \in InUse
    BY <1>2, InUseIs
  <2>2. NoSnapshot \in InUse
    BY InUseIs
  <2> QED BY <2>1, <2>2, InUseAfter
<1>6. VersionsDiffer'
  BY <1>1, <1>5 DEF VersionsDiffer
<1>7. EnginesGood'
  BY <1>1, <1>2, <1>5, EnginesStay
<1>8. KeysBehind'
  <2>1. live'.version \in Nat
    BY <1>3 DEF SnapshotOK
  <2> QED BY <1>1, <1>2, <2>1, KeysStay
<1> QED BY <1>2, <1>4, <1>6, <1>7, <1>8

LEMMA RequestIsNotWorker == \A r \in Requests : r \in Callers /\ r # Worker
BY WorkerAssumption DEF Callers

LEMMA WorkerIsCaller == Worker \in Callers
BY DEF Callers

\* The worker starts, or nothing changes for it.
LEMMA WorkerStarts ==
  ASSUME WorkerOK, StartWorker
  PROVE  /\ worker' = [x \in WorkerFields |-> worker'[x]]
         /\ worker' = worker \/ (worker.pc = "off" /\ worker'.pc = "idle")
<1>1. CASE worker.pc = "off"
  <2>1. worker' = Loop(0, live)
    BY <1>1 DEF StartWorker
  <2>2. PICK snap : snap = live
    OBVIOUS
  <2>3. LET w == Loop(0, snap) IN w = [x \in WorkerFields |-> w[x]] /\ w.pc = "idle"
    BY LoopIs
  <2> QED BY <1>1, <2>1, <2>2, <2>3
<1>2. CASE worker.pc # "off"
  <2>1. worker' = worker
    BY <1>2 DEF StartWorker
  <2> QED BY <2>1 DEF WorkerOK
<1> QED BY <1>1, <1>2

\* A request begins or ends.
LEMMA CoreRequest ==
  ASSUME CoreInv, setup' = setup, NEW r \in Requests, NEW x, CallOK(x), x.slot = NoSlot,
         call' = [call EXCEPT ![r] = x], Shrinks, slots' = Collect(cache', call', slots),
         x.snap \in {NoSnapshot, live}, live' = live,
         worker' = [y \in WorkerFields |-> worker'[y]],
         worker' = worker \/ (worker.pc = "off" /\ worker'.pc = "idle")
  PROVE  CoreInv'
<1>1. TypeOK /\ WorkerOK /\ NobodyAhead /\ r \in Callers /\ r # Worker
  BY RequestIsNotWorker DEF CoreInv
<1>2. live.version \in Nat /\ NoSnapshot.version = 0
  BY <1>1 DEF TypeOK, SnapshotOK, NoSnapshot
<1>3. x.snap \in InUse /\ live' \in InUse /\ live.version <= live'.version
  BY <1>2, InUseIs
<1>4. worker.pc = "applying" => worker'.pc = "applying" /\ worker'.next = worker.next
  OBVIOUS
<1>5. /\ TypeOK' /\ VersionsDiffer' /\ SlotInv' /\ EnginesGood' /\ KeysBehind'
      /\ call'[r] = x /\ \A d \in Callers : d # r => call'[d] = call[d]
  BY <1>1, <1>3, <1>4, CoreReseated
<1>6. call'[Worker] = call[Worker]
  BY <1>1, <1>5, WorkerIsCaller
<1>7. WorkerOK'
  BY <1>1, <1>6 DEF WorkerOK
<1>8. NobodyAhead'
  <2>1. \A c \in Callers : \/ call'[c].snap.version <= live'.version
                           \/ c = Worker /\ worker'.pc = "applying"
    <3> SUFFICES ASSUME NEW c \in Callers
                 PROVE  \/ call'[c].snap.version <= live'.version
                        \/ c = Worker /\ worker'.pc = "applying"
      OBVIOUS
    <3>1. CASE c = r
      BY <1>2, <1>5, <3>1
    <3>2. CASE c # r
      <4>1. \/ call[c].snap.version <= live.version
            \/ c = Worker /\ worker.pc = "applying"
        BY <1>1 DEF NobodyAhead
      <4> QED BY <1>4, <1>5, <3>2, <4>1
    <3> QED BY <3>1, <3>2
  <2> QED BY <2>1 DEF NobodyAhead
<1> QED BY <1>5, <1>7, <1>8 DEF CoreInv

LEMMA CoreStartRequest ==
  ASSUME CoreInv, setup' = setup, NEW r \in Requests, StartRequest(r)
  PROVE  CoreInv'
<1>1. TypeOK /\ WorkerOK /\ SlotInv /\ r \in Callers
  BY RequestIsNotWorker DEF CoreInv
<1>2. PICK router \in 1..Routers, dep \in setup.departures, snap \in {NoSnapshot, live} :
        call' = [call EXCEPT ![r] = [NoCall EXCEPT
                   !.pc = "lookup", !.router = router, !.dep = dep, !.snap = snap]]
  BY DEF StartRequest
<1>3. call' = [call EXCEPT ![r] = CallAt(router, dep, snap)]
  <2>1. [NoCall EXCEPT !.pc = "lookup", !.router = router, !.dep = dep, !.snap = snap] =
          CallAt(router, dep, snap)
    BY CallWith
  <2> QED BY <1>2, <2>1, Zenon
<1>4. /\ call[r].pc = "none" /\ StartWorker /\ live' = live /\ cache' = cache /\ slots' = slots
  BY DEF StartRequest
<1>5. call[r].slot = NoSlot
  BY <1>1, <1>4 DEF TypeOK, HeapOK, CallOK
<1>6. SnapshotOK(snap)
  BY <1>1, NoSnapshotOK DEF TypeOK
<1> DEFINE x == CallAt(router, dep, snap)
<1>7. CallOK(x) /\ x.slot = NoSlot /\ x.snap = snap
  BY <1>6, CallAtOK
<1> HIDE DEF x
<1>8. call' = [call EXCEPT ![r] = x]
  BY <1>3 DEF x
<1>9. Shrinks /\ slots' = Collect(cache', call', slots)
  BY <1>1, <1>4, <1>5, <1>7, <1>8, NothingFreed
<1>10. /\ worker' = [y \in WorkerFields |-> worker'[y]]
       /\ worker' = worker \/ (worker.pc = "off" /\ worker'.pc = "idle")
  BY <1>1, <1>4, WorkerStarts
<1> QED BY <1>4, <1>7, <1>8, <1>9, <1>10, CoreRequest

LEMMA CoreFinishRequest ==
  ASSUME CoreInv, setup' = setup, NEW r \in Requests, FinishRequest(r)
  PROVE  CoreInv'
<1>1. TypeOK /\ WorkerOK /\ SlotInv /\ r \in Callers
  BY RequestIsNotWorker DEF CoreInv
<1>2. /\ Settled(r) /\ call' = [call EXCEPT ![r] = NoCall] /\ ForgetFailure(r)
      /\ slots' = Collect(cache', call', slots) /\ live' = live /\ worker' = worker
  BY DEF FinishRequest
<1>3. Shrinks
  BY <1>1, <1>2, Forgotten
<1>4. CallOK(NoCall) /\ NoCall.slot = NoSlot /\ NoCall.snap = NoSnapshot
  BY <1>1, NoCallOK, RoutersBound
<1>5. worker' = [y \in WorkerFields |-> worker'[y]]
  BY <1>1, <1>2 DEF WorkerOK
<1> HIDE DEF NoCall
<1> QED BY <1>2, <1>3, <1>4, <1>5, CoreRequest

\* Nothing changes but the clock, the clients and the queue.
LEMMA CoreQuiet ==
  ASSUME CoreInv, UNCHANGED <<live, cache, slots, call, setup>>,
         worker' = [y \in WorkerFields |-> worker'[y]],
         \/ worker' = worker
         \/ /\ worker.pc \notin {"applying", "prewarming"}
            /\ worker'.pc \notin {"applying", "prewarming"}
  PROVE  CoreInv'
<1>1. /\ TypeOK /\ WorkerOK /\ VersionsDiffer /\ NobodyAhead /\ SlotInv
      /\ EnginesGood /\ KeysBehind
  BY DEF CoreInv
<1>2. /\ live' = live /\ cache' = cache /\ slots' = slots /\ call' = call /\ setup' = setup
  OBVIOUS
<1>3. HeapOK'
  BY <1>1, <1>2 DEF TypeOK, HeapOK, CallOK, Routers
<1>4. TypeOK'
  BY <1>1, <1>2, <1>3 DEF TypeOK
<1>5. \A p : p \in Claims' <=> p \in Claims
  <2>1. \A c \in Callers : Key(call'[c].dep, call'[c].snap) = KeyOf(c)
    BY <1>2 DEF KeyOf
  <2> QED BY <1>2, <2>1, ClaimsAre, ClaimsAfter
<1>6. Claims' = Claims
  BY <1>5
<1>7. InUse' = InUse
  BY <1>2 DEF InUse
<1>8. VersionsDiffer' /\ OneClaim' /\ StatesTell' /\ BuildersAlone'
  BY <1>1, <1>2, <1>6, <1>7 DEF VersionsDiffer, SlotInv, OneClaim, StatesTell, BuildersAlone
<1>9. FreeIsEmpty'
  BY <1>1, <1>2 DEF SlotInv, FreeIsEmpty, Held, Routers
<1>10. EnginesGood'
  BY <1>1, <1>2, <1>6, <1>7, EnginesStay
<1>11. KeysBehind'
  <2>1. live'.version \in Nat /\ live.version <= live'.version
    BY <1>1, <1>2 DEF TypeOK, SnapshotOK
  <2> QED BY <1>1, <1>2, <1>6, <2>1, KeysStay
<1>12. NobodyAhead'
  BY <1>1, <1>2 DEF NobodyAhead
<1>13. WorkerOK'
  BY <1>1, <1>2 DEF WorkerOK
<1> QED BY <1>4, <1>8, <1>9, <1>10, <1>11, <1>12, <1>13 DEF CoreInv, SlotInv

\* The steps of a call leave snapshots and the worker alone.
LEMMA CoreCallStep ==
  ASSUME CoreInv, setup' = setup, NEW c \in Callers, CallStep(c)
  PROVE  CoreInv'
<1>1. /\ TypeOK /\ WorkerOK /\ VersionsDiffer /\ NobodyAhead /\ SlotInv
      /\ EnginesGood /\ KeysBehind
  BY DEF CoreInv
<1>2. live' = live /\ worker' = worker
  BY DEF CallStep, Lookup, BeginBuild, EndBuild
<1>3. /\ HeapOK' /\ SlotInv' /\ (\A d \in Callers : d # c => call'[d] = call[d])
      /\ \A d \in Callers : call'[d].snap = call[d].snap
      /\ \A p \in Claims' : p \in Claims \/ p.key = KeyOf(c)
      /\ call'[c].pc \in {"get", "building"} /\ call[c].pc # "none"
      /\ call'[c].dep = call[c].dep
  <2>1. CallOK(call[c]) /\ call = [d \in Callers |-> call[d]]
    BY <1>1 DEF TypeOK, HeapOK
  <2>2. call[c] = [pc |-> call[c].pc, router |-> call[c].router, dep |-> call[c].dep,
                   snap |-> call[c].snap, slot |-> call[c].slot]
    BY <2>1 DEF CallOK
  <2>3. CASE Lookup(c)
    <3>1. PICK s : call' = [call EXCEPT ![c].pc = "get", ![c].slot = s] /\ call[c].pc = "lookup"
      BY <2>3 DEF Lookup
    <3>2. call'[c] = [call[c] EXCEPT !.pc = "get", !.slot = s]
      BY <2>1, <3>1
    <3>3. call'[c].pc = "get" /\ call'[c].dep = call[c].dep
      BY <2>2, <3>2
    <3> QED BY <1>1, <2>3, <3>1, <3>3, LookedUp
  <2>4. CASE BeginBuild(c)
    <3>1. call' = [call EXCEPT ![c].pc = "building"] /\ call[c].pc = "get"
      BY <2>4 DEF BeginBuild
    <3>2. call'[c] = [call[c] EXCEPT !.pc = "building"]
      BY <2>1, <3>1
    <3>3. call'[c].pc = "building" /\ call'[c].dep = call[c].dep
      BY <2>2, <3>2
    <3> QED BY <1>1, <2>4, <3>1, <3>3, BuildBegun
  <2>5. CASE EndBuild(c)
    <3>1. call' = [call EXCEPT ![c].pc = "get"] /\ call[c].pc = "building"
      BY <2>5 DEF EndBuild
    <3>2. call'[c] = [call[c] EXCEPT !.pc = "get"]
      BY <2>1, <3>1
    <3>3. call'[c].pc = "get" /\ call'[c].dep = call[c].dep
      BY <2>2, <3>2
    <3> QED BY <1>1, <2>5, <3>1, <3>3, BuildEnded
  <2> QED BY <2>3, <2>4, <2>5 DEF CallStep
<1>4. TypeOK'
  BY <1>1, <1>2, <1>3 DEF TypeOK
<1>5. \A S : S \in InUse' <=> S \in InUse
  BY <1>2, <1>3, InUseIs, InUseAfter
<1>6. VersionsDiffer'
  BY <1>1, <1>5 DEF VersionsDiffer
<1>7. NobodyAhead'
  <2>1. \A d \in Callers : \/ call'[d].snap.version <= live'.version
                           \/ d = Worker /\ worker'.pc = "applying"
    BY <1>1, <1>2, <1>3 DEF NobodyAhead
  <2> QED BY <2>1 DEF NobodyAhead
<1>8. WorkerOK'
  <2>1. call'[Worker].snap = call[Worker].snap /\ call'[Worker].dep = call[Worker].dep
    BY <1>3, WorkerIsCaller
  <2>2. call[Worker].pc = "none" => call'[Worker].pc = "none"
    BY <1>3, WorkerIsCaller
  <2>3. call[Worker].pc # "none" => call'[Worker].pc # "none"
    BY <1>3, WorkerIsCaller
  <2> QED BY <1>1, <1>2, <2>1, <2>2, <2>3 DEF WorkerOK
<1>9. KeysBehind'
  <2>1. live'.version \in Nat /\ live.version <= live'.version
    BY <1>1, <1>2 DEF TypeOK, SnapshotOK
  <2>2. worker.pc = "applying" => worker'.pc = "applying" /\ worker'.next = worker.next
    BY <1>2
  <2> QED BY <1>1, <1>3, <2>1, <2>2, KeysStay
<1>10. EnginesGood'
  <2>1. CASE Lookup(c)
    <3>1. \A p \in Claims' : slots'[p.slot].state = "ready" =>
                               p \in Claims /\ slots'[p.slot] = slots[p.slot]
      <4>1. \A p \in Claims' : (p \in Claims)
              \/ (p.key = KeyOf(c) /\ slots'[p.slot].state = "empty")
        BY <1>1, <2>1, LookedUp
      <4>2. \A p \in Claims' : slots'[p.slot] = slots[p.slot]
        BY <1>1, <2>1, LookedUp
      <4> QED BY <4>1, <4>2
    <3> QED BY <1>1, <1>5, <3>1, EnginesStay
  <2>2. CASE BeginBuild(c)
    <3>1. /\ Claims' = Claims /\ slots'[call[c].slot].state = "building"
          /\ \A s \in SlotIds : s # call[c].slot => slots'[s] = slots[s]
      BY <1>1, <2>2, BuildBegun
    <3>2. \A p \in Claims : p.slot \in SlotIds
      BY <1>1, ClaimsHold DEF TypeOK
    <3>3. \A p \in Claims' : slots'[p.slot].state = "ready" =>
                               p \in Claims /\ slots'[p.slot] = slots[p.slot]
      BY <3>1, <3>2
    <3> QED BY <1>1, <1>5, <3>3, EnginesStay
  <2>3. CASE EndBuild(c)
    <3>1. /\ Claims' = Claims
          /\ \A s \in SlotIds : s # call[c].slot => slots'[s] = slots[s]
          /\ slots'[call[c].slot].state = "ready" =>
              slots'[call[c].slot].engine = EngineFor(KeyOf(c), call[c].snap)
          /\ call[c].slot \in SlotIds
      BY <1>1, <2>3, BuildEnded
    <3>2. \A p \in Claims : p.slot \in SlotIds
      BY <1>1, ClaimsHold DEF TypeOK
    <3>3. \A p \in Claims : p.slot = call[c].slot => p.key = KeyOf(c)
      <4>1. call[c].slot # NoSlot
        BY <1>1, <3>1, SlotIdsAre
      <4>2. [router |-> call[c].router, key |-> KeyOf(c), slot |-> call[c].slot] \in Claims
        BY <4>1, CallersClaim
      <4>3. \A p, q \in Claims : p.slot = q.slot => p = q
        BY <1>1 DEF SlotInv, OneClaim
      <4> QED BY <4>2, <4>3
    <3>4. ASSUME NEW p \in Claims, setup.failing = {}, slots'[p.slot].state = "ready"
          PROVE  IF p.key.active = {}
                 THEN slots'[p.slot].engine = [class |-> p.key.class, live |-> {}]
                 ELSE \A S \in InUse : S.version = p.key.version =>
                        slots'[p.slot].engine = EngineFor(p.key, S)
      <4>1. CASE p.slot # call[c].slot
        <5>1. slots'[p.slot] = slots[p.slot]
          BY <3>1, <3>2, <4>1
        <5> QED BY <1>1, <3>4, <5>1 DEF EnginesGood, GoodEngine
      <4>2. CASE p.slot = call[c].slot
        <5>1. p.key = KeyOf(c) /\ slots'[p.slot].engine = EngineFor(KeyOf(c), call[c].snap)
          BY <3>1, <3>3, <3>4, <4>2
        <5>2. SnapshotOK(call[c].snap) /\ call[c].snap \in InUse
          BY <1>1, InUseIs, InUseOK
        <5>3. EngineFor(KeyOf(c), call[c].snap) = Right(call[c].dep, call[c].snap)
          BY <5>2, EngineOfKey DEF KeyOf
        <5>4. /\ KeyOf(c).active = {} => Right(call[c].dep, call[c].snap) =
                                           [class |-> KeyOf(c).class, live |-> {}]
              /\ KeyOf(c).active # {} => KeyOf(c).version = call[c].snap.version
          BY KeyIs DEF KeyOf
        <5>5. ASSUME KeyOf(c).active # {}, NEW S \in InUse, S.version = KeyOf(c).version
              PROVE  S = call[c].snap
          BY <1>1, <5>2, <5>4, <5>5 DEF VersionsDiffer
        <5> QED BY <5>1, <5>3, <5>4, <5>5
      <4> QED BY <4>1, <4>2
    <3>5. \A key, S : EngineFor(key, S)' = EngineFor(key, S)
      BY DEF EngineFor, IndexIn
    <3>6. ASSUME NEW p \in Claims', setup.failing = {}, slots'[p.slot].state = "ready"
          PROVE  GoodEngine(p.key, slots[p.slot].engine)'
      <4>1. p \in Claims
        BY <3>1
      <4>2. IF p.key.active = {}
            THEN slots'[p.slot].engine = [class |-> p.key.class, live |-> {}]
            ELSE \A S \in InUse' : S.version = p.key.version =>
                        slots'[p.slot].engine = EngineFor(p.key, S)
        BY <1>5, <3>4, <3>6, <4>1
      <4> QED BY <3>5, <4>2 DEF GoodEngine
    <3> QED BY <3>6 DEF EnginesGood
  <2> QED BY <2>1, <2>2, <2>3 DEF CallStep
<1> QED BY <1>3, <1>4, <1>6, <1>7, <1>8, <1>9, <1>10 DEF CoreInv

\* The worker gives up its slot, if it had one, and takes up or ends a call
\* under a snapshot already in use.
LEMMA CoreWorker ==
  ASSUME CoreInv, setup' = setup, NEW x, CallOK(x), x.slot = NoSlot,
         call' = [call EXCEPT ![Worker] = x], Shrinks, slots' = Collect(cache', call', slots),
         x.snap \in InUse, live' \in InUse, live.version <= live'.version,
         (setup.failing = {} /\ worker.pc = "applying") =>
           \/ worker.next.version <= live'.version
           \/ worker'.pc = "applying" /\ worker'.next = worker.next,
         worker' = [y \in WorkerFields |-> worker'[y]],
         worker'.pc \notin {"applying", "prewarming"} => x.pc = "none",
         worker'.pc = "applying" =>
           /\ worker'.next.version = live'.version + 1
           /\ x.pc # "none" /\ x.snap = worker'.next /\ x.dep = worker'.at,
         worker'.pc # "applying" => x.snap.version <= live'.version
  PROVE  CoreInv'
<1>1. TypeOK /\ WorkerOK /\ NobodyAhead /\ Worker \in Callers
  BY WorkerIsCaller DEF CoreInv
<1>2. /\ TypeOK' /\ VersionsDiffer' /\ SlotInv' /\ EnginesGood' /\ KeysBehind'
      /\ call'[Worker] = x /\ \A d \in Callers : d # Worker => call'[d] = call[d]
  BY <1>1, CoreReseated
<1>3. WorkerOK'
  BY <1>2 DEF WorkerOK
<1>4. live.version \in Nat /\ live'.version \in Nat
  BY <1>1, <1>2 DEF TypeOK, SnapshotOK
<1>5. NobodyAhead'
  <2>1. ASSUME NEW c \in Callers
        PROVE  \/ call'[c].snap.version <= live'.version
               \/ c = Worker /\ worker'.pc = "applying"
    <3>1. CASE c = Worker
      BY <1>2, <3>1
    <3>2. CASE c # Worker
      <4>1. call[c].snap.version <= live.version /\ call'[c] = call[c]
        BY <1>1, <1>2, <3>2 DEF NobodyAhead
      <4>2. call[c].snap.version \in Nat
        BY <1>1 DEF TypeOK, HeapOK, CallOK, SnapshotOK
      <4> QED BY <1>4, <4>1, <4>2
    <3> QED BY <3>1, <3>2
  <2> QED BY <2>1 DEF NobodyAhead
<1> QED BY <1>2, <1>3, <1>5 DEF CoreInv

\* The worker's record keeps its shape.
Shaped(w, pc) == w = [f \in WorkerFields |-> w[f]] /\ w.pc = pc
LEMMA WorkerWith ==
  ASSUME WorkerOK, NEW x, NEW y
  PROVE  /\ Shaped([worker EXCEPT !.pc = "taken", !.batch = x], "taken")
         /\ Shaped([worker EXCEPT !.pc = "replying", !.report = x], "replying")
         /\ Shaped([worker EXCEPT !.pc = "prewarming"], "prewarming")
         /\ Shaped([worker EXCEPT !.pc = "applying", !.next = x, !.at = y], "applying")
         /\ [worker EXCEPT !.pc = "applying", !.next = x, !.at = y].next = x
         /\ [worker EXCEPT !.pc = "applying", !.next = x, !.at = y].at = y
<1>1. worker = [f \in WorkerFields |-> worker[f]]
  BY DEF WorkerOK
<1>2. Shaped([worker EXCEPT !.pc = "taken", !.batch = x], "taken")
  BY <1>1 DEF WorkerFields, Shaped
<1>3. Shaped([worker EXCEPT !.pc = "replying", !.report = x], "replying")
  BY <1>1 DEF WorkerFields, Shaped
<1>4. Shaped([worker EXCEPT !.pc = "prewarming"], "prewarming")
  BY <1>1 DEF WorkerFields, Shaped
<1>5. Shaped([worker EXCEPT !.pc = "applying", !.next = x, !.at = y], "applying")
  BY <1>1 DEF WorkerFields, Shaped
<1>6. /\ [worker EXCEPT !.pc = "applying", !.next = x, !.at = y].next = x
      /\ [worker EXCEPT !.pc = "applying", !.next = x, !.at = y].at = y
  BY <1>1 DEF WorkerFields
<1> QED BY <1>2, <1>3, <1>4, <1>5, <1>6

LEMMA CoreTakeBatch ==
  ASSUME CoreInv, setup' = setup, TakeBatch
  PROVE  CoreInv'
<1>1. WorkerOK
  BY DEF CoreInv
<1>2. /\ worker.pc = "idle" /\ worker' = [worker EXCEPT !.pc = "taken", !.batch = queue]
      /\ UNCHANGED <<live, cache, slots, call, setup>>
  BY DEF TakeBatch
<1>3. worker' = [x \in WorkerFields |-> worker'[x]] /\ worker'.pc = "taken"
  BY <1>1, <1>2, WorkerWith DEF Shaped
<1> QED BY <1>2, <1>3, CoreQuiet

LEMMA CoreReply ==
  ASSUME CoreInv, setup' = setup, Reply
  PROVE  CoreInv'
<1>1. WorkerOK
  BY DEF CoreInv
<1>2. /\ worker.pc = "replying" /\ worker' = Loop(worker.until, live)
      /\ UNCHANGED <<live, cache, slots, call, setup>>
  BY DEF Reply
<1>3. PICK until, snap : until = worker.until /\ snap = live
  OBVIOUS
<1>4. LET w == Loop(until, snap) IN w = [x \in WorkerFields |-> w[x]] /\ w.pc = "idle"
  BY <1>1, LoopIs
<1>5. worker' = [x \in WorkerFields |-> worker'[x]] /\ worker'.pc = "idle"
  BY <1>2, <1>3, <1>4
<1> QED BY <1>2, <1>5, CoreQuiet

LEMMA CorePost ==
  ASSUME CoreInv, setup' = setup, NEW c, NEW job, NEW wait, Post(c, job, wait)
  PROVE  CoreInv'
<1>1. WorkerOK
  BY DEF CoreInv
<1>2. UNCHANGED <<live, cache, slots, call, setup>> /\ (StartWorker \/ worker' = worker)
  BY DEF Post
<1>3. /\ worker' = [x \in WorkerFields |-> worker'[x]]
      /\ worker' = worker \/ (worker.pc = "off" /\ worker'.pc = "idle")
  <2>1. CASE StartWorker
    BY <1>1, <2>1, WorkerStarts
  <2>2. CASE worker' = worker
    BY <1>1, <2>2 DEF WorkerOK
  <2> QED BY <1>2, <2>1, <2>2
<1> QED BY <1>2, <1>3, CoreQuiet

LEMMA CoreTick ==
  ASSUME CoreInv, setup' = setup, Tick
  PROVE  CoreInv'
<1>1. UNCHANGED <<live, cache, slots, call, setup>> /\ worker' = worker
  BY DEF Tick
<1>2. worker' = [x \in WorkerFields |-> worker'[x]]
  BY <1>1 DEF CoreInv, WorkerOK
<1> QED BY <1>1, <1>2, CoreQuiet

\* What every step of the worker builds on.
LEMMA WorkerFacts ==
  ASSUME CoreInv
  PROVE  /\ TypeOK /\ WorkerOK /\ SlotInv /\ NobodyAhead /\ Worker \in Callers
         /\ live \in InUse /\ NoSnapshot \in InUse /\ call[Worker].snap \in InUse
         /\ live.version \in Nat /\ NoSnapshot.version = 0 /\ CallOK(call[Worker])
         /\ CallOK(NoCall) /\ NoCall.slot = NoSlot /\ NoCall.pc = "none"
         /\ NoCall.snap = NoSnapshot
<1>1. TypeOK /\ WorkerOK /\ SlotInv /\ NobodyAhead /\ Worker \in Callers
  BY WorkerIsCaller DEF CoreInv
<1>2. live \in InUse /\ NoSnapshot \in InUse /\ call[Worker].snap \in InUse
  BY <1>1, InUseIs
<1>3. live.version \in Nat /\ CallOK(call[Worker])
  BY <1>1 DEF TypeOK, HeapOK, SnapshotOK
<1>4. NoSnapshot.version = 0
  BY DEF NoSnapshot
<1>5. /\ CallOK(NoCall) /\ NoCall.slot = NoSlot /\ NoCall.pc = "none"
      /\ NoCall.snap = NoSnapshot
  BY <1>1, NoCallOK, RoutersBound
<1> QED BY <1>1, <1>2, <1>3, <1>4, <1>5

LEMMA SameCaches ==
  ASSUME TypeOK, cache' = cache
  PROVE  Shrinks
BY DEF TypeOK, HeapOK, Shrinks

LEMMA CoreNextRouter ==
  ASSUME CoreInv, setup' = setup, NextRouter
  PROVE  CoreInv'
<1> DEFINE x == CallAt(call[Worker].router + 1, call[Worker].dep, call[Worker].snap)
<1>1. /\ TypeOK /\ WorkerOK /\ SlotInv /\ NobodyAhead /\ Worker \in Callers
      /\ live \in InUse /\ call[Worker].snap \in InUse
      /\ live.version \in Nat /\ CallOK(call[Worker])
  BY WorkerFacts
<1>2. /\ worker.pc \in {"applying", "prewarming"} /\ call[Worker].router < Routers
      /\ Prepare(call[Worker].router + 1, call[Worker].dep, call[Worker].snap)
      /\ slots' = Collect(cache, call', slots) /\ live' = live /\ cache' = cache
      /\ worker' = worker
  BY DEF NextRouter
<1>3. call' = [call EXCEPT ![Worker] = x]
  BY <1>2, PrepareIs
<1>4. call[Worker].router + 1 \in 1..Routers /\ SnapshotOK(call[Worker].snap)
  BY <1>1, <1>2, RoutersBound DEF CallOK
<1>5. /\ CallOK(x) /\ x.slot = NoSlot /\ x.pc = "lookup" /\ x.snap = call[Worker].snap
      /\ x.dep = call[Worker].dep
  BY <1>4, CallAtOK
<1> HIDE DEF x
<1>6. Shrinks /\ slots' = Collect(cache', call', slots)
  BY <1>1, <1>2, SameCaches
<1>7. live' \in InUse /\ live.version <= live'.version
  BY <1>1, <1>2
<1>8. worker' = [y \in WorkerFields |-> worker'[y]]
  BY <1>1, <1>2 DEF WorkerOK
<1>9. worker'.pc = "applying" =>
        /\ worker'.next.version = live'.version + 1
        /\ x.pc # "none" /\ x.snap = worker'.next /\ x.dep = worker'.at
  BY <1>1, <1>2, <1>5 DEF WorkerOK
<1>10. worker'.pc # "applying" => x.snap.version <= live'.version
  BY <1>1, <1>2, <1>5 DEF NobodyAhead
<1> QED BY <1>1, <1>2, <1>3, <1>5, <1>6, <1>7, <1>8, <1>9, <1>10, CoreWorker

LEMMA CorePublish ==
  ASSUME CoreInv, setup' = setup, Publish
  PROVE  CoreInv'
<1>1. /\ TypeOK /\ WorkerOK /\ Worker \in Callers /\ NoSnapshot \in InUse
      /\ call[Worker].snap \in InUse /\ live.version \in Nat /\ NoSnapshot.version = 0
      /\ CallOK(NoCall) /\ NoCall.slot = NoSlot /\ NoCall.pc = "none"
      /\ NoCall.snap = NoSnapshot
  BY WorkerFacts
<1>2. /\ worker.pc = "applying" /\ live' = worker.next
      /\ call' = [call EXCEPT ![Worker] = NoCall]
      /\ slots' = Collect(cache, call', slots) /\ cache' = cache
      /\ worker' = [worker EXCEPT !.pc = "replying", !.report = "ok"]
  BY DEF Publish
<1>3. Shrinks /\ slots' = Collect(cache', call', slots)
  BY <1>1, <1>2, SameCaches
<1>4. /\ live' \in InUse /\ live'.version = live.version + 1
      /\ worker.next.version = live'.version
  BY <1>1, <1>2 DEF WorkerOK
<1>5. live.version <= live'.version /\ worker.next.version <= live'.version
  BY <1>1, <1>4
<1>6. worker' = [y \in WorkerFields |-> worker'[y]] /\ worker'.pc = "replying"
  BY <1>1, <1>2, WorkerWith DEF Shaped
<1>7. NoCall.snap.version <= live'.version
  BY <1>1, <1>4
<1> HIDE DEF NoCall
<1> QED BY <1>1, <1>2, <1>3, <1>4, <1>5, <1>6, <1>7, CoreWorker

LEMMA CoreAbandonApply ==
  ASSUME CoreInv, setup' = setup, AbandonApply
  PROVE  CoreInv'
<1>1. /\ TypeOK /\ WorkerOK /\ SlotInv /\ Worker \in Callers /\ NoSnapshot \in InUse
      /\ live \in InUse /\ live.version \in Nat /\ NoSnapshot.version = 0
      /\ CallOK(NoCall) /\ NoCall.slot = NoSlot /\ NoCall.pc = "none"
      /\ NoCall.snap = NoSnapshot
  BY WorkerFacts
<1>2. /\ worker.pc = "applying" /\ live' = live /\ Settled(Worker) /\ ~Succeeded(Worker)
      /\ ForgetFailure(Worker) /\ call' = [call EXCEPT ![Worker] = NoCall]
      /\ slots' = Collect(cache', call', slots)
      /\ worker' = [worker EXCEPT !.pc = "replying", !.report = "failed"]
  BY DEF AbandonApply
<1>3. Shrinks
  BY <1>1, <1>2, Forgotten
<1>4. setup.failing # {}
  BY <1>1, <1>2, SettledTells
<1>5. worker' = [y \in WorkerFields |-> worker'[y]] /\ worker'.pc = "replying"
  BY <1>1, <1>2, WorkerWith DEF Shaped
<1>6. live' \in InUse /\ live.version <= live'.version /\ NoCall.snap.version <= live'.version
  BY <1>1, <1>2
<1> HIDE DEF NoCall
<1> QED BY <1>1, <1>2, <1>3, <1>4, <1>5, <1>6, CoreWorker

LEMMA CoreEndPrewarm ==
  ASSUME CoreInv, setup' = setup, EndPrewarm
  PROVE  CoreInv'
<1>1. /\ TypeOK /\ WorkerOK /\ SlotInv /\ Worker \in Callers /\ NoSnapshot \in InUse
      /\ live \in InUse /\ live.version \in Nat /\ NoSnapshot.version = 0
      /\ CallOK(NoCall) /\ NoCall.slot = NoSlot /\ NoCall.pc = "none"
      /\ NoCall.snap = NoSnapshot
  BY WorkerFacts
<1>2. /\ worker.pc = "prewarming" /\ live' = live /\ Settled(Worker)
      /\ ForgetFailure(Worker) /\ call' = [call EXCEPT ![Worker] = NoCall]
      /\ slots' = Collect(cache', call', slots) /\ worker' = Loop(worker.event, live)
  BY DEF EndPrewarm
<1>3. Shrinks
  BY <1>1, <1>2, Forgotten
<1>4. worker' = [y \in WorkerFields |-> worker'[y]] /\ worker'.pc = "idle"
  <2>1. PICK until, snap : until = worker.event /\ snap = live
    OBVIOUS
  <2>2. LET w == Loop(until, snap) IN w = [y \in WorkerFields |-> w[y]] /\ w.pc = "idle"
    BY <1>1, LoopIs
  <2> QED BY <1>2, <2>1, <2>2
<1>5. live' \in InUse /\ live.version <= live'.version /\ NoCall.snap.version <= live'.version
  BY <1>1, <1>2
<1> HIDE DEF NoCall
<1> QED BY <1>1, <1>2, <1>3, <1>4, <1>5, CoreWorker

LEMMA CoreBeginPrewarm ==
  ASSUME CoreInv, setup' = setup, BeginPrewarm
  PROVE  CoreInv'
<1> DEFINE x == CallAt(1, worker.event, live)
<1>1. /\ TypeOK /\ WorkerOK /\ SlotInv /\ Worker \in Callers /\ live \in InUse
      /\ live.version \in Nat /\ CallOK(call[Worker])
  BY WorkerFacts
<1>2. /\ worker.pc = "idle" /\ worker' = [worker EXCEPT !.pc = "prewarming"]
      /\ Prepare(1, worker.event, live) /\ live' = live /\ cache' = cache /\ slots' = slots
  BY DEF BeginPrewarm
<1>3. call' = [call EXCEPT ![Worker] = x]
  BY <1>2, PrepareIs
<1>4. 1 \in 1..Routers /\ SnapshotOK(live)
  BY <1>1, RoutersBound DEF TypeOK
<1>5. CallOK(x) /\ x.slot = NoSlot /\ x.pc = "lookup" /\ x.snap = live
  BY <1>4, CallAtOK
<1>6. call[Worker].slot = NoSlot
  BY <1>1, <1>2 DEF WorkerOK, CallOK
<1> HIDE DEF x
<1>7. Shrinks /\ slots' = Collect(cache', call', slots)
  BY <1>1, <1>2, <1>3, <1>5, <1>6, NothingFreed
<1>8. worker' = [y \in WorkerFields |-> worker'[y]] /\ worker'.pc = "prewarming"
  BY <1>1, <1>2, WorkerWith DEF Shaped
<1>9. live' \in InUse /\ live.version <= live'.version /\ x.snap.version <= live'.version
  BY <1>1, <1>2, <1>5
<1> QED BY <1>1, <1>2, <1>3, <1>5, <1>7, <1>8, <1>9, CoreWorker

\* Between batches nobody is ahead of the published snapshot, so the next
\* version is a new one.
LEMMA CoreBeginApply ==
  ASSUME CoreInv, setup' = setup, BeginApply
  PROVE  CoreInv'
<1> DEFINE x == CallAt(1, now, NextSnapshot)
<1>1. /\ TypeOK /\ WorkerOK /\ SlotInv /\ NobodyAhead /\ Worker \in Callers
      /\ live.version \in Nat /\ CallOK(call[Worker]) /\ NoSnapshot.version = 0
      /\ VersionsDiffer /\ EnginesGood /\ KeysBehind
  BY WorkerFacts DEF CoreInv
<1>2. /\ worker.pc = "taken" /\ live' = live /\ cache' = cache /\ slots' = slots
  BY DEF BeginApply
<1>3. CASE ~(\A u \in Range(Updates) : Valid(u, now))
  <2>1. /\ worker' = [worker EXCEPT !.pc = "replying", !.report = "failed"]
        /\ call' = call
    BY <1>3 DEF BeginApply
  <2>2. worker' = [y \in WorkerFields |-> worker'[y]] /\ worker'.pc = "replying"
    BY <1>1, <2>1, WorkerWith DEF Shaped
  <2> QED BY <1>2, <2>1, <2>2, CoreQuiet
<1>4. CASE \A u \in Range(Updates) : Valid(u, now)
  <2>1. /\ worker' = [worker EXCEPT !.pc = "applying", !.next = NextSnapshot, !.at = now]
        /\ Prepare(1, now, NextSnapshot)
    BY <1>4 DEF BeginApply
  <2>2. SnapshotOK(NextSnapshot) /\ NextSnapshot.version = live.version + 1
    BY <1>1, NextSnapshotOK DEF TypeOK
  <2>3. PICK next : next = NextSnapshot
    OBVIOUS
  <2>4. PICK t : t = now
    OBVIOUS
  <2>5. /\ Shaped(worker', "applying") /\ worker'.next = next /\ worker'.at = t
    BY <1>1, <2>1, <2>3, <2>4, WorkerWith
  <2>6. /\ worker' = [y \in WorkerFields |-> worker'[y]] /\ worker'.pc = "applying"
    BY <2>5 DEF Shaped
  <2>7. 1 \in 1..Routers
    BY <1>1, RoutersBound
  <2>8. /\ CallOK(x) /\ x.slot = NoSlot /\ x.pc = "lookup" /\ x.snap = next /\ x.dep = t
    <3>1. \A s, d : SnapshotOK(s) =>
            /\ CallOK(CallAt(1, d, s)) /\ CallAt(1, d, s).slot = NoSlot
            /\ CallAt(1, d, s).pc = "lookup" /\ CallAt(1, d, s).snap = s
            /\ CallAt(1, d, s).dep = d
      BY <2>7, CallAtOK
    <3> QED BY <2>2, <2>3, <2>4, <3>1
  <2>9. call' = [call EXCEPT ![Worker] = x]
    BY <2>1, PrepareIs
  <2> HIDE DEF x, NextSnapshot
  <2>10. call[Worker].slot = NoSlot
    BY <1>1, <1>2 DEF WorkerOK, CallOK
  <2>11. Shrinks /\ slots' = Collect(cache', call', slots)
    BY <1>1, <1>2, <2>8, <2>9, <2>10, NothingFreed
  <2>12. /\ HeapOK' /\ SlotInv' /\ Claims' \subseteq Claims
         /\ \A p \in Claims' : slots'[p.slot] = slots[p.slot]
         /\ call'[Worker] = x /\ \A d \in Callers : d # Worker => call'[d] = call[d]
    BY <1>1, <2>8, <2>9, <2>11, Reseated
  <2>13. TypeOK'
    BY <1>1, <1>2, <2>12 DEF TypeOK, SnapshotOK
  <2>14. \A S \in InUse : S.version <= live.version
    <3>1. \A c \in Callers : call[c].snap.version <= live.version
      BY <1>1, <1>2 DEF NobodyAhead
    <3> QED BY <1>1, <3>1, InUseIs
  <2>15. \A S \in InUse' : S \in InUse \/ S = next
    <3>1. \A d \in Callers : call'[d].snap \in InUse \/ call'[d].snap = next
      BY <2>8, <2>12, InUseIs
    <3>2. NoSnapshot \in InUse /\ live \in InUse
      BY InUseIs
    <3> QED BY <1>2, <3>1, <3>2, InUseAfter
  <2>16. next.version = live.version + 1
    BY <2>2, <2>3
  <2>17. \A S \in InUse : S.version # next.version
    <3>1. \A S \in InUse : S.version \in Nat
      BY <1>1, InUseOK DEF SnapshotOK
    <3> QED BY <1>1, <2>14, <2>16, <3>1
  <2>18. VersionsDiffer'
    BY <1>1, <2>15, <2>17 DEF VersionsDiffer
  <2>19. EnginesGood'
    <3>1. CASE setup.failing # {}
      BY <3>1 DEF EnginesGood
    <3>2. CASE setup.failing = {}
      <4>1. \A p \in Claims : p.key.active # {} => p.key.version \in 0..live.version
        BY <1>1, <1>2, <3>2 DEF KeysBehind
      <4>2. \A p \in Claims : p.key.active # {} => next.version # p.key.version
        BY <1>1, <2>16, <4>1
      <4> QED BY <1>1, <2>12, <2>15, <4>2, EnginesStay
    <3> QED BY <3>1, <3>2
  <2>20. KeysBehind'
    <3>1. live'.version \in Nat /\ live.version <= live'.version
      BY <1>1, <1>2
    <3> QED BY <1>1, <1>2, <2>12, <3>1, KeysStay
  <2>21. NobodyAhead'
    <3>1. \A c \in Callers : \/ call'[c].snap.version <= live'.version
                             \/ c = Worker /\ worker'.pc = "applying"
      BY <1>1, <1>2, <2>6, <2>12 DEF NobodyAhead
    <3> QED BY <3>1 DEF NobodyAhead
  <2>22. WorkerOK'
    BY <1>2, <2>5, <2>6, <2>8, <2>12, <2>16 DEF WorkerOK
  <2> QED BY <2>12, <2>13, <2>18, <2>19, <2>20, <2>21, <2>22 DEF CoreInv
<1> QED BY <1>3, <1>4

\* Every step keeps the core.
LEMMA CoreNext ==
  ASSUME CoreInv, [Next]_vars
  PROVE  CoreInv'
<1>1. CASE UNCHANGED vars
  <2>1. UNCHANGED <<live, cache, slots, call, setup>> /\ worker' = worker
    BY <1>1 DEF vars, moving
  <2>2. worker' = [y \in WorkerFields |-> worker'[y]]
    BY <2>1 DEF CoreInv, WorkerOK
  <2> QED BY <2>1, <2>2, CoreQuiet
<1>2. CASE Next
  <2>1. setup' = setup
    BY <1>2 DEF Next
  <2>2. ASSUME NEW r \in Requests, RequestStep(r)
        PROVE  CoreInv'
    <3>1. r \in Callers
      BY RequestIsNotWorker
    <3> QED BY <2>1, <2>2, <3>1, CoreStartRequest, CoreCallStep, CoreFinishRequest
            DEF RequestStep
  <2>3. ASSUME NEW c \in Clients, NEW job \in setup.posts[c], Post(c, job, setup.wait)
        PROVE  CoreInv'
    <3>1. PICK wait : wait = setup.wait
      OBVIOUS
    <3> QED BY <2>1, <2>3, <3>1, CorePost
  <2>4. CASE Applying
    BY <2>1, <2>4, CoreTakeBatch, CoreBeginApply, CoreNextRouter, CorePublish,
       CoreAbandonApply, CoreReply, CoreBeginPrewarm, CoreEndPrewarm DEF Applying
  <2>5. CASE CallStep(Worker)
    BY <2>1, <2>5, WorkerIsCaller, CoreCallStep
  <2>6. CASE Tick
    BY <2>1, <2>6, CoreTick
  <2> QED BY <1>2, <2>2, <2>3, <2>4, <2>5, <2>6 DEF Next
<1> QED BY <1>1, <1>2

-----------------------------------------------------------------------------
(* A swap in progress stays warm where it has been.                        *)

\* Caches of routers that do not fail keep their entries unless they are
\* full, and what is ready stays so.
KeepsEntries ==
  \A r \in 1..Routers : r \notin setup.failing =>
    /\ Len(cache[r]) = Capacity => Len(cache'[r]) = Capacity
    /\ (Len(cache'[r]) = Capacity)
       \/ (\A e \in Range(cache[r]) :
             /\ e \in Range(cache'[r])
             /\ slots[e.slot].state = "ready" => slots'[e.slot].state = "ready")

LEMMA WarmStays ==
  ASSUME TypeOK, WarmSoFar, setup' = setup, worker' = worker, KeepsEntries,
         call'[Worker].router = call[Worker].router,
         (call'[Worker].slot = call[Worker].slot)
         \/ (\E e \in Range(cache'[call[Worker].router]) :
               e.key = Key(worker.at, worker.next) /\ e.slot = call'[Worker].slot)
  PROVE  WarmSoFar'
<1> SUFFICES ASSUME worker.pc = "applying" PROVE WarmSoFar'
  BY DEF WarmSoFar
<1> DEFINE at == call[Worker].router
           key == Key(worker.at, worker.next)
<1>1. at \in 1..Routers /\ Routers \in Nat
  BY WorkerIsCaller, RoutersBound DEF TypeOK, HeapOK, CallOK
<1>2. PICK k : k = key
  OBVIOUS
<1>3. \A r \in 1..(at - 1) :
        /\ r \notin setup.failing
        /\ (Len(cache[r]) = Capacity)
           \/ (\E e \in Range(cache[r]) : e.key = k /\ slots[e.slot].state = "ready")
  BY <1>2 DEF WarmSoFar, Full
<1>4. (call[Worker].slot # NoSlot /\ at \notin setup.failing) =>
        (Len(cache[at]) = Capacity)
        \/ (\E e \in Range(cache[at]) : e.key = k /\ e.slot = call[Worker].slot)
  BY <1>2 DEF WarmSoFar, Full
<1>5. \A r \in 1..(at - 1) :
        /\ r \notin setup.failing
        /\ (Len(cache'[r]) = Capacity)
           \/ (\E e \in Range(cache'[r]) : e.key = k /\ slots'[e.slot].state = "ready")
  BY <1>1, <1>3 DEF KeepsEntries
<1>6. (call'[Worker].slot # NoSlot /\ at \notin setup.failing) =>
        (Len(cache'[at]) = Capacity)
        \/ (\E e \in Range(cache'[at]) : e.key = k /\ e.slot = call'[Worker].slot)
  <2>1. CASE call'[Worker].slot = call[Worker].slot
    BY <1>1, <1>4, <2>1 DEF KeepsEntries
  <2>2. CASE \E e \in Range(cache'[at]) : e.key = k /\ e.slot = call'[Worker].slot
    BY <2>2
  <2> QED BY <1>2, <2>1, <2>2
<1>7. k = Key(worker'.at, worker'.next)
  BY <1>2
<1>8. \A t, S : Key(t, S)' = Key(t, S)
  BY DEF Key, ClassAt, BucketTicks, ActiveIndices, IndexIn
<1> HIDE DEF key
<1> QED BY <1>5, <1>6, <1>7, <1>8 DEF WarmSoFar, Full

\* A collection spares what the caches refer to.
LEMMA EntriesSpared ==
  ASSUME setup' = setup, \A p \in Claims' : slots'[p.slot] = slots[p.slot]
  PROVE  \A r \in 1..Routers : \A e \in Range(cache'[r]) : slots'[e.slot] = slots[e.slot]
<1>1. ASSUME NEW r \in 1..Routers, NEW e \in Range(cache'[r])
      PROVE  slots'[e.slot] = slots[e.slot]
  <2> DEFINE p == [router |-> r, key |-> e.key, slot |-> e.slot]
  <2>1. p \in Claims'
    BY <1>1, ClaimsAfter
  <2>2. p.slot = e.slot
    OBVIOUS
  <2> HIDE DEF p
  <2> QED BY <2>1, <2>2
<1> QED BY <1>1

LEMMA WarmLookup ==
  ASSUME CoreInv, WarmSoFar, setup' = setup, NEW c \in Callers, Lookup(c)
  PROVE  WarmSoFar'
<1>1. TypeOK /\ SlotInv /\ WorkerOK
  BY DEF CoreInv
<1>2. worker' = worker
  BY DEF Lookup
<1> SUFFICES ASSUME worker.pc = "applying" PROVE WarmSoFar'
  BY <1>2 DEF WarmSoFar
<1>3. /\ \A p \in Claims' : slots'[p.slot] = slots[p.slot]
      /\ \A d \in Callers : d # c => call'[d] = call[d]
  BY <1>1, LookedUp
<1>4. PICK s \in SlotIds :
        /\ call' = [call EXCEPT ![c].pc = "get", ![c].slot = s]
        /\ \A q \in 1..Routers :
             /\ q # call[c].router => cache'[q] = cache[q]
             /\ Len(cache[q]) = Capacity => Len(cache'[q]) = Capacity
        /\ [key |-> KeyOf(c), slot |-> s] \in Range(cache'[call[c].router])
        /\ (Len(cache'[call[c].router]) = Capacity)
           \/ (Range(cache[call[c].router]) \subseteq Range(cache'[call[c].router]))
  BY <1>1, LookupIs
<1>5. KeepsEntries
  <2>1. \A r \in 1..Routers : \A e \in Range(cache'[r]) : slots'[e.slot] = slots[e.slot]
    BY <1>3, EntriesSpared
  <2>2. \A r \in 1..Routers : (Len(cache'[r]) = Capacity)
                              \/ (Range(cache[r]) \subseteq Range(cache'[r]))
    BY <1>4
  <2> QED BY <1>4, <2>1, <2>2 DEF KeepsEntries
<1>6. CASE c # Worker
  <2>1. call'[Worker] = call[Worker]
    BY <1>3, <1>6, WorkerIsCaller
  <2> QED BY <1>1, <1>2, <1>5, <2>1, WarmStays
<1>7. CASE c = Worker
  <2>1. CallOK(call[Worker]) /\ call = [d \in Callers |-> call[d]]
    BY <1>1, WorkerIsCaller DEF TypeOK, HeapOK
  <2>2. call'[Worker] = [call[Worker] EXCEPT !.pc = "get", !.slot = s]
    BY <1>4, <1>7, <2>1, WorkerIsCaller
  <2>3. call'[Worker].slot = s /\ call'[Worker].router = call[Worker].router
    <3>1. call[Worker] = [f \in CallFields |-> call[Worker][f]]
      BY <2>1 DEF CallOK, CallFields
    <3> QED BY <2>2, <3>1 DEF CallFields
  <2>4. KeyOf(Worker) = Key(worker.at, worker.next)
    BY <1>1 DEF WorkerOK, KeyOf
  <2> DEFINE e == [key |-> KeyOf(c), slot |-> s]
  <2>5. e.key = KeyOf(c) /\ e.slot = s /\ e \in Range(cache'[call[c].router])
    BY <1>4
  <2> HIDE DEF e
  <2>6. \E x \in Range(cache'[call[Worker].router]) :
          x.key = Key(worker.at, worker.next) /\ x.slot = call'[Worker].slot
    BY <1>7, <2>3, <2>4, <2>5
  <2> QED BY <1>1, <1>2, <1>5, <2>3, <2>6, WarmStays
<1> QED BY <1>6, <1>7

LEMMA WarmBuild ==
  ASSUME CoreInv, WarmSoFar, setup' = setup, NEW c \in Callers, BeginBuild(c) \/ EndBuild(c)
  PROVE  WarmSoFar'
<1>1. TypeOK /\ SlotInv
  BY DEF CoreInv
<1>2. worker' = worker /\ cache' = cache
  BY DEF BeginBuild, EndBuild
<1>3. /\ slots[call[c].slot].state \in {"empty", "building"}
      /\ \A s \in SlotIds : s # call[c].slot => slots'[s] = slots[s]
      /\ call'[Worker].slot = call[Worker].slot /\ call'[Worker].router = call[Worker].router
  BY <1>1, BuildBegun, BuildEnded, WorkerIsCaller
<1>4. KeepsEntries
  <2>1. \A r \in 1..Routers : \A e \in Range(cache[r]) : e.slot \in SlotIds
    BY <1>1 DEF TypeOK, HeapOK, LruOK
  <2>2. \A s \in SlotIds : slots[s].state = "ready" => slots'[s].state = "ready"
    BY <1>3
  <2> QED BY <1>2, <2>1, <2>2 DEF KeepsEntries
<1> QED BY <1>1, <1>2, <1>3, <1>4, WarmStays

LEMMA WarmFinishRequest ==
  ASSUME CoreInv, WarmSoFar, setup' = setup, NEW r \in Requests, FinishRequest(r)
  PROVE  WarmSoFar'
<1>1. TypeOK /\ SlotInv /\ r \in Callers /\ r # Worker /\ Worker \in Callers
  BY RequestIsNotWorker, WorkerIsCaller DEF CoreInv
<1>2. /\ Settled(r) /\ call' = [call EXCEPT ![r] = NoCall] /\ ForgetFailure(r)
      /\ slots' = Collect(cache', call', slots) /\ worker' = worker
  BY DEF FinishRequest
<1>3. Shrinks /\ \A q \in 1..Routers : q \notin setup.failing => cache'[q] = cache[q]
  BY <1>1, <1>2, Forgotten
<1>4. CallOK(NoCall) /\ NoCall.slot = NoSlot
  BY <1>1, NoCallOK, RoutersBound
<1>5. /\ \A p \in Claims' : slots'[p.slot] = slots[p.slot]
      /\ \A d \in Callers : d # r => call'[d] = call[d]
  <2> HIDE DEF NoCall
  <2> QED BY <1>1, <1>2, <1>3, <1>4, Reseated
<1>6. \A q \in 1..Routers : \A e \in Range(cache'[q]) : slots'[e.slot] = slots[e.slot]
  BY <1>5, EntriesSpared
<1>7. KeepsEntries
  BY <1>3, <1>6 DEF KeepsEntries
<1> QED BY <1>1, <1>2, <1>5, <1>7, WarmStays

\* The worker goes on to the next router once it has the engine of the last.
LEMMA WarmNextRouter ==
  ASSUME CoreInv, WarmSoFar, setup' = setup, NextRouter
  PROVE  WarmSoFar'
<1> DEFINE at == call[Worker].router
           x == CallAt(at + 1, call[Worker].dep, call[Worker].snap)
<1>1. /\ TypeOK /\ WorkerOK /\ SlotInv /\ Worker \in Callers /\ CallOK(call[Worker])
  BY WorkerFacts
<1>2. /\ Settled(Worker) /\ Succeeded(Worker) /\ call[Worker].router < Routers
      /\ Prepare(call[Worker].router + 1, call[Worker].dep, call[Worker].snap)
      /\ slots' = Collect(cache, call', slots) /\ cache' = cache /\ worker' = worker
  BY DEF NextRouter
<1> SUFFICES ASSUME worker.pc = "applying" PROVE WarmSoFar'
  BY <1>2 DEF WarmSoFar
<1>3. call' = [call EXCEPT ![Worker] = x]
  BY <1>2, PrepareIs
<1>4. /\ at + 1 \in 1..Routers /\ SnapshotOK(call[Worker].snap) /\ at \in 1..Routers
      /\ Routers \in Nat
  BY <1>1, <1>2, RoutersBound DEF CallOK
<1>5. CallOK(x) /\ x.slot = NoSlot /\ x.router = at + 1
  BY <1>4, CallAtOK
<1>6. at \notin setup.failing
  BY <1>1, <1>2, SettledTells
<1>7. call[Worker].slot # NoSlot /\ slots[call[Worker].slot].state = "ready"
  <2>1. call[Worker].slot \in SlotIds
    BY <1>1, <1>2 DEF CallOK, Settled
  <2>2. call[Worker].slot # NoSlot
    BY <1>1, <2>1, SlotIdsAre
  <2> QED BY <1>2, <2>2 DEF Succeeded
<1> HIDE DEF x
<1>8. Shrinks /\ slots' = Collect(cache', call', slots)
  BY <1>1, <1>2, SameCaches
<1>9. call'[Worker] = x /\ \A p \in Claims' : slots'[p.slot] = slots[p.slot]
  BY <1>1, <1>3, <1>5, <1>8, Reseated
<1>10. \A r \in 1..Routers : \A e \in Range(cache[r]) : slots'[e.slot] = slots[e.slot]
  BY <1>2, <1>9, EntriesSpared
<1>11. PICK k : k = Key(worker.at, worker.next)
  OBVIOUS
<1>12. \A r \in 1..(at - 1) :
        /\ r \notin setup.failing
        /\ (Len(cache[r]) = Capacity)
           \/ (\E e \in Range(cache[r]) : e.key = k /\ slots[e.slot].state = "ready")
  BY <1>11 DEF WarmSoFar, Full
<1>13. (Len(cache[at]) = Capacity)
        \/ (\E e \in Range(cache[at]) : e.key = k /\ slots[e.slot].state = "ready")
  BY <1>6, <1>7, <1>11 DEF WarmSoFar, Full
<1>14. \A r \in 1..at :
        /\ r \notin setup.failing
        /\ (Len(cache[r]) = Capacity)
           \/ (\E e \in Range(cache[r]) : e.key = k /\ slots'[e.slot].state = "ready")
  <2>1. \A r \in 1..at : r \in 1..Routers /\ (r \in 1..(at - 1) \/ r = at)
    BY <1>4
  <2> HIDE DEF at
  <2> QED BY <1>6, <1>10, <1>12, <1>13, <2>1
<1>15. call'[Worker].router - 1 = at /\ call'[Worker].slot = NoSlot
  BY <1>4, <1>5, <1>9
<1>16. k = Key(worker'.at, worker'.next)
  BY <1>2, <1>11
<1>17. \A t, S : Key(t, S)' = Key(t, S)
  BY DEF Key, ClassAt, BucketTicks, ActiveIndices, IndexIn
<1> HIDE DEF at
<1> QED BY <1>2, <1>14, <1>15, <1>16, <1>17 DEF WarmSoFar, Full

LEMMA WarmBeginApply ==
  ASSUME CoreInv, setup' = setup, BeginApply, worker'.pc = "applying"
  PROVE  WarmSoFar'
<1>1. /\ WorkerOK /\ Worker \in Callers /\ TypeOK
  BY WorkerFacts
<1>2. CASE ~(\A u \in Range(Updates) : Valid(u, now))
  <2>1. worker' = [worker EXCEPT !.pc = "replying", !.report = "failed"]
    BY <1>2 DEF BeginApply
  <2>2. worker'.pc = "replying"
    BY <1>1, <2>1, WorkerWith DEF Shaped
  <2> QED BY <2>2
<1>3. CASE \A u \in Range(Updates) : Valid(u, now)
  <2>1. Prepare(1, now, NextSnapshot)
    BY <1>3 DEF BeginApply
  <2>2. PICK next, t : next = NextSnapshot /\ t = now
    OBVIOUS
  <2>3. call' = [call EXCEPT ![Worker] = CallAt(1, t, next)]
    BY <2>1, <2>2, PrepareIs
  <2>4. call = [d \in Callers |-> call[d]]
    BY <1>1 DEF TypeOK, HeapOK
  <2>5. call'[Worker] = CallAt(1, t, next)
    BY <1>1, <2>3, <2>4
  <2>6. call'[Worker].router = 1 /\ call'[Worker].slot = NoSlot
    BY <2>5 DEF CallAt
  <2> QED BY <2>6 DEF WarmSoFar
<1> QED BY <1>2, <1>3

\* Steps that leave the caches and the worker's call alone.
LEMMA WarmQuiet ==
  ASSUME TypeOK, WarmSoFar, setup' = setup, worker' = worker, cache' = cache, slots' = slots,
         call'[Worker] = call[Worker]
  PROVE  WarmSoFar'
<1>1. KeepsEntries
  BY DEF KeepsEntries
<1> QED BY <1>1, WarmStays

LEMMA WarmNext ==
  ASSUME IInv, [Next]_vars
  PROVE  WarmSoFar'
<1>1. CoreInv /\ TypeOK /\ WarmSoFar /\ WorkerOK
  BY DEF IInv, CoreInv
<1> SUFFICES ASSUME worker'.pc = "applying" PROVE WarmSoFar'
  BY DEF WarmSoFar
<1>2. CASE UNCHANGED vars
  BY <1>1, <1>2, WarmQuiet DEF vars, moving
<1>3. CASE Next
  <2>1. setup' = setup
    BY <1>3 DEF Next
  <2>2. ASSUME NEW c \in Callers, CallStep(c)
        PROVE  WarmSoFar'
    BY <1>1, <2>1, <2>2, WarmLookup, WarmBuild DEF CallStep
  <2>3. ASSUME NEW r \in Requests, RequestStep(r)
        PROVE  WarmSoFar'
    <3>1. r \in Callers /\ r # Worker /\ Worker \in Callers
      BY RequestIsNotWorker, WorkerIsCaller
    <3>2. CASE StartRequest(r)
      <4>1. StartWorker /\ cache' = cache /\ slots' = slots
        BY <3>2 DEF StartRequest
      <4>2. worker' = worker
        BY <1>1, <4>1, WorkerStarts
      <4>3. call'[Worker] = call[Worker]
        BY <1>1, <3>1, <3>2 DEF StartRequest, TypeOK, HeapOK
      <4> QED BY <1>1, <2>1, <4>1, <4>2, <4>3, WarmQuiet
    <3> QED BY <1>1, <2>1, <2>2, <2>3, <3>1, <3>2, WarmFinishRequest DEF RequestStep
  <2>4. ASSUME NEW c \in Clients, NEW job \in setup.posts[c], Post(c, job, setup.wait)
        PROVE  WarmSoFar'
    <3>1. /\ cache' = cache /\ slots' = slots /\ call' = call
          /\ StartWorker \/ worker' = worker
      BY <2>4 DEF Post
    <3>2. worker' = worker
      BY <1>1, <3>1, WorkerStarts
    <3> QED BY <1>1, <2>1, <3>1, <3>2, WarmQuiet
  <2>5. CASE Tick
    BY <1>1, <2>1, <2>5, WarmQuiet DEF Tick
  <2>6. CASE Applying
    <3>1. CASE TakeBatch
      <4>1. worker' = [worker EXCEPT !.pc = "taken", !.batch = queue]
        BY <3>1 DEF TakeBatch
      <4>2. worker'.pc = "taken"
        BY <1>1, <4>1, WorkerWith DEF Shaped
      <4> QED BY <4>2
    <3>2. CASE Publish
      <4>1. worker' = [worker EXCEPT !.pc = "replying", !.report = "ok"]
        BY <3>2 DEF Publish
      <4>2. worker'.pc = "replying"
        BY <1>1, <4>1, WorkerWith DEF Shaped
      <4> QED BY <4>2
    <3>3. CASE AbandonApply
      <4>1. worker' = [worker EXCEPT !.pc = "replying", !.report = "failed"]
        BY <3>3 DEF AbandonApply
      <4>2. worker'.pc = "replying"
        BY <1>1, <4>1, WorkerWith DEF Shaped
      <4> QED BY <4>2
    <3>4. CASE BeginPrewarm
      <4>1. worker' = [worker EXCEPT !.pc = "prewarming"]
        BY <3>4 DEF BeginPrewarm
      <4>2. worker'.pc = "prewarming"
        BY <1>1, <4>1, WorkerWith DEF Shaped
      <4> QED BY <4>2
    <3>5. CASE Reply \/ EndPrewarm
      <4>1. PICK until : worker' = Loop(until, live)
        BY <3>5 DEF Reply, EndPrewarm
      <4>2. PICK snap : snap = live
        OBVIOUS
      <4>3. LET w == Loop(until, snap) IN w = [x \in WorkerFields |-> w[x]] /\ w.pc = "idle"
        BY <1>1, LoopIs
      <4>4. worker'.pc = "idle"
        BY <4>1, <4>2, <4>3
      <4> QED BY <4>4
    <3> QED BY <1>1, <2>1, <2>6, <3>1, <3>2, <3>3, <3>4, <3>5, WarmNextRouter, WarmBeginApply
            DEF Applying
  <2> QED BY <1>3, <2>2, <2>3, <2>4, <2>5, <2>6, WorkerIsCaller DEF Next
<1> QED BY <1>2, <1>3

-----------------------------------------------------------------------------
(* The theorems.                                                           *)

LEMMA InitHolds == Init => IInv
<1> SUFFICES ASSUME Init PROVE IInv
  OBVIOUS
<1>1. /\ setup \in Setups /\ live = NoSnapshot /\ cache = [r \in 1..Routers |-> <<>>]
      /\ slots = [s \in SlotIds |-> EmptySlot] /\ call = [c \in Callers |-> NoCall]
  BY DEF Init
<1>2. worker = [pc |-> "off", batch |-> <<>>, next |-> NoSnapshot, at |-> 0,
               event |-> 0, until |-> 0, report |-> "none"]
  BY DEF Init
<1>3. Routers \in Nat \ {0} /\ Capacity \in Nat
  BY <1>1, SetupAssumption DEF Routers
<1>4. CallOK(NoCall) /\ NoCall.slot = NoSlot /\ NoCall.pc = "none" /\ NoCall.snap = NoSnapshot
  BY <1>3, NoCallOK
<1>5. NoSnapshot.version = 0 /\ SnapshotOK(NoSnapshot)
  BY NoSnapshotOK DEF NoSnapshot
<1>6. LruOK(<<>>) /\ Range(<<>>) = {}
  <2>1. Range(<<>>) = {}
    BY DEF Range
  <2>2. <<>> \in Seq(Range(<<>>)) /\ Len(<<>>) = 0 /\ DOMAIN <<>> = {}
    OBVIOUS
  <2> QED BY <1>3, <2>1, <2>2 DEF LruOK, KeysOnce
<1>7. SlotOK(EmptySlot) /\ EmptySlot.state = "empty"
  BY DEF SlotOK, EmptySlot, NoEngine
<1> HIDE DEF NoCall, NoSnapshot, EmptySlot
<1>8. TypeOK
  <2>1. /\ \A r \in 1..Routers : cache[r] = <<>>
        /\ \A s \in SlotIds : slots[s] = EmptySlot
        /\ \A c \in Callers : call[c] = NoCall
    BY <1>1
  <2> QED BY <1>1, <1>4, <1>5, <1>6, <1>7, <2>1 DEF TypeOK, HeapOK
<1>9. \A c \in Callers : call[c] = NoCall
  BY <1>1
<1>10. worker.pc = "off" /\ worker = [x \in WorkerFields |-> worker[x]]
  BY <1>2 DEF WorkerFields
<1>11. WorkerOK
  BY <1>4, <1>9, <1>10, WorkerIsCaller DEF WorkerOK
<1>12. VersionsDiffer /\ NobodyAhead
  <2>1. \A S \in InUse : S = NoSnapshot
    BY <1>1, <1>4, <1>9, InUseIs
  <2>2. \A c \in Callers : call[c].snap.version <= live.version
    BY <1>1, <1>4, <1>5, <1>9
  <2> QED BY <2>1, <2>2 DEF VersionsDiffer, NobodyAhead
<1>13. Claims = {}
  <2>1. \A p : p \notin Claims
    BY <1>1, <1>4, <1>6, <1>9, ClaimsAre
  <2> QED BY <2>1
<1>14. SlotInv
  <2>1. FreeIsEmpty
    BY <1>1 DEF FreeIsEmpty
  <2>2. BuildersAlone
    BY <1>4, <1>9 DEF BuildersAlone
  <2> QED BY <1>13, <2>1, <2>2 DEF SlotInv, OneClaim, StatesTell
<1>15. EnginesGood /\ KeysBehind
  BY <1>13 DEF EnginesGood, KeysBehind
<1>16. WarmSoFar
  BY <1>10 DEF WarmSoFar
<1> QED BY <1>8, <1>11, <1>12, <1>14, <1>15, <1>16 DEF IInv

LEMMA NextHolds == IInv /\ [Next]_vars => IInv'
<1> SUFFICES ASSUME IInv, [Next]_vars PROVE IInv'
  OBVIOUS
<1>1. CoreInv
  BY DEF IInv, CoreInv
<1>2. CoreInv'
  BY <1>1, CoreNext
<1>3. WarmSoFar'
  BY WarmNext
<1> QED BY <1>2, <1>3 DEF IInv, CoreInv

\* The invariant holds in every state of the service: caches hold each key
\* once and never more than their capacity, a slot belongs to one key of one
\* router and has one builder, a version names one snapshot, and every engine
\* a slot keeps is the one its key calls for.
THEOREM Invariant == Spec => []IInv
<1>1. IInv /\ [Next]_vars => IInv'
  BY NextHolds
<1> QED BY InitHolds, <1>1, PTL DEF Spec

\* Whoever obtains an engine obtains the one for its departure and its own
\* snapshot, whoever built it and whatever was evicted, published or freed in
\* between.
THEOREM OwnEngine == Spec => []EngineMatchesRequest
<1>1. IInv => EngineMatchesRequest
  <2> SUFFICES ASSUME IInv, setup.failing = {}, NEW c \in Callers, Settled(c), Succeeded(c)
               PROVE  slots[call[c].slot].engine = Right(call[c].dep, call[c].snap)
    BY DEF EngineMatchesRequest, Right
  <2>1. TypeOK /\ VersionsDiffer /\ EnginesGood
    BY DEF IInv
  <2>2. CallOK(call[c]) /\ SnapshotOK(call[c].snap) /\ call[c].snap \in InUse
    BY <2>1, InUseIs DEF TypeOK, HeapOK, CallOK
  <2>3. slots[call[c].slot].state = "ready" /\ call[c].slot # NoSlot
    BY <2>1, <2>2, SlotIdsAre DEF Settled, Succeeded, CallOK
  <2> DEFINE p == [router |-> call[c].router, key |-> KeyOf(c), slot |-> call[c].slot]
  <2>4. p \in Claims /\ p.key = KeyOf(c) /\ p.slot = call[c].slot
    BY <2>3, CallersClaim
  <2> HIDE DEF p
  <2>5. GoodEngine(KeyOf(c), slots[call[c].slot].engine)
    BY <2>1, <2>3, <2>4 DEF EnginesGood
  <2>6. EngineFor(KeyOf(c), call[c].snap) = Right(call[c].dep, call[c].snap)
    BY <2>2, EngineOfKey DEF KeyOf
  <2>7. /\ KeyOf(c).active = {} => Right(call[c].dep, call[c].snap) =
                                     [class |-> KeyOf(c).class, live |-> {}]
        /\ KeyOf(c).active # {} => KeyOf(c).version = call[c].snap.version
    BY KeyIs DEF KeyOf
  <2>8. CASE KeyOf(c).active = {}
    BY <2>5, <2>7, <2>8 DEF GoodEngine
  <2>9. CASE KeyOf(c).active # {}
    BY <2>2, <2>5, <2>6, <2>7, <2>9 DEF GoodEngine
  <2> QED BY <2>8, <2>9
<1> QED BY <1>1, Invariant, PTL

\* No swap is published before every profile has its engine.
THEOREM WarmSwap == Spec => SwapIsWarm
<1>1. IInv /\ [Next]_vars => [SwapStep]_vars
  <2> SUFFICES ASSUME IInv, [Next]_vars, live' # live, NEW r \in 1..Routers,
                      Len(cache[r]) # Capacity
               PROVE  \E i \in DOMAIN cache[r] :
                        /\ cache[r][i].key = Key(worker.at, live')
                        /\ slots[cache[r][i].slot].state = "ready"
    BY DEF SwapStep
  <2>1. Publish
    BY DEF Next, vars, moving, Tick, RequestStep, StartRequest, FinishRequest, CallStep,
           Lookup, BeginBuild, EndBuild, Post, Applying, TakeBatch, BeginApply, NextRouter,
           AbandonApply, Reply, BeginPrewarm, EndPrewarm
  <2>2. /\ worker.pc = "applying" /\ Settled(Worker) /\ Succeeded(Worker)
        /\ call[Worker].router = Routers /\ live' = worker.next
    BY <2>1 DEF Publish
  <2>3. TypeOK /\ SlotInv /\ WarmSoFar /\ Worker \in Callers /\ CallOK(call[Worker])
    BY WorkerIsCaller DEF IInv, TypeOK, HeapOK
  <2>4. call[Worker].slot # NoSlot /\ slots[call[Worker].slot].state = "ready"
    BY <2>2, <2>3, SlotIdsAre DEF Settled, Succeeded, CallOK
  <2>5. Routers \notin setup.failing /\ Routers \in Nat
    BY <2>2, <2>3, SettledTells, RoutersBound
  <2>6. PICK k : k = Key(worker.at, worker.next)
    OBVIOUS
  <2>7. \E e \in Range(cache[r]) : e.key = k /\ slots[e.slot].state = "ready"
    <3>1. CASE r = Routers
      BY <2>2, <2>3, <2>4, <2>5, <2>6, <3>1 DEF WarmSoFar, Full
    <3>2. CASE r # Routers
      <4>1. r \in 1..(Routers - 1)
        BY <2>5, <3>2
      <4> QED BY <2>2, <2>3, <2>6, <4>1 DEF WarmSoFar, Full
    <3> QED BY <3>1, <3>2
  <2>8. LruOK(cache[r])
    BY <2>3 DEF TypeOK, HeapOK
  <2>9. \A e \in Range(cache[r]) : \E i \in DOMAIN cache[r] : cache[r][i] = e
    BY <2>8, LruFacts
  <2> QED BY <2>2, <2>6, <2>7, <2>9
<1> QED BY <1>1, Invariant, PTL DEF Spec, SwapIsWarm

-----------------------------------------------------------------------------
(* TrafficService implements LiveTrafficStore: the batches the worker      *)
(* coalesces and applies in the background take effect as if they were     *)
(* applied one after the other, in the order they were accepted.           *)

-----------------------------------------------------------------------------
(* The store speaks of updates in the words of the service.                *)

LEMMA SameWords ==
  /\ Store!NoEntries = NoEntries
  /\ \A at, u : Store!Valid(u, at) = Valid(u, at)
  /\ \A at, es : Store!Unexpired(at, es) = Unexpired(at, es)
BY Zenon DEF Store!NoEntries, NoEntries, Store!Valid, Valid, Store!Clear, Clear, Store!Expiry,
             Expiry, Store!Unexpired, Unexpired, Store!Restrict, Restrict

\* What an update leaves of a feature.
Entry(at, u) == [value |-> u.value, from |-> at, until |-> RoundUp(Expiry(u, at))]

LEMMA OneUpdate ==
  ASSUME NEW at, NEW es, NEW u
  PROVE  Store!ApplyUpdate(at, es, u) =
           IF u.value = Clear \/ u.feature \notin WithEdges
           THEN [f \in DOMAIN es \ {u.feature} |-> es[f]]
           ELSE [f \in DOMAIN es \cup {u.feature} |->
                   IF f = u.feature THEN Entry(at, u) ELSE es[f]]
<1>1. Restrict(es, DOMAIN es \ {u.feature}) = [f \in DOMAIN es \ {u.feature} |-> es[f]]
  BY DEF Restrict
<1> QED BY <1>1, Zenon DEF Store!ApplyUpdate, Store!Restrict, Restrict, Clear, Store!Clear,
              RoundUp, Store!RoundUp, Expiry, Store!Expiry, Entry

-----------------------------------------------------------------------------
(* One batch: applying its updates one by one leaves what the last update  *)
(* of each feature says.                                                   *)

\* What a set of positions of a list of updates says: S is the positions that
\* count so far.
At(f, us, S) == {i \in S : us[i].feature = f}
LastOf(f, us, S) == us[Max(At(f, us, S))]
FeaturesOf(us, S) == {us[i].feature : i \in S}
Sets(us, S) == {f \in FeaturesOf(us, S) \cap WithEdges : LastOf(f, us, S).value # Clear}
After(at, base, us, S) ==
  [f \in (DOMAIN base \ FeaturesOf(us, S)) \cup Sets(us, S) |->
     IF f \in Sets(us, S) THEN Entry(at, LastOf(f, us, S)) ELSE base[f]]

\* The last position decides about its feature, and no other.
LEMMA LastPosition ==
  ASSUME NEW us, NEW S \in SUBSET Nat, NEW m \in S, \A y \in S : y <= m
  PROVE  /\ FeaturesOf(us, S) = FeaturesOf(us, S \ {m}) \cup {us[m].feature}
         /\ LastOf(us[m].feature, us, S) = us[m]
         /\ \A f : f # us[m].feature => LastOf(f, us, S) = LastOf(f, us, S \ {m})
<1>2. FeaturesOf(us, S) = FeaturesOf(us, S \ {m}) \cup {us[m].feature}
  BY DEF FeaturesOf
<1>3. LastOf(us[m].feature, us, S) = us[m]
  <2>1. PICK T : T = At(us[m].feature, us, S)
    OBVIOUS
  <2>2. T \in SUBSET Nat /\ m \in T /\ \A y \in T : y <= m
    BY <2>1 DEF At
  <2>3. \A x \in T : (\A y \in T : x >= y) <=> x = m
    BY <2>2
  <2>4. Max(T) = m
    BY <2>2, <2>3 DEF Max
  <2> QED BY <2>1, <2>4 DEF LastOf
<1>4. ASSUME NEW f, f # us[m].feature PROVE LastOf(f, us, S) = LastOf(f, us, S \ {m})
  <2>1. At(f, us, S) = At(f, us, S \ {m})
    BY <1>4 DEF At
  <2> QED BY <2>1 DEF LastOf
<1> QED BY <1>2, <1>3, <1>4

LEMMA AfterStep ==
  ASSUME NEW at, NEW base, NEW us, NEW S \in SUBSET Nat, NEW m \in S, \A y \in S : y <= m
  PROVE  After(at, base, us, S) = Store!ApplyUpdate(at, After(at, base, us, S \ {m}), us[m])
<1>0. PICK R, g, before :
           /\ R = S \ {m} /\ g = us[m].feature /\ before = After(at, base, us, R)
  OBVIOUS
<1>1. /\ FeaturesOf(us, S) = FeaturesOf(us, R) \cup {g}
      /\ LastOf(g, us, S) = us[m]
      /\ \A f : f # g => LastOf(f, us, S) = LastOf(f, us, R)
  <2>1. /\ FeaturesOf(us, S) = FeaturesOf(us, S \ {m}) \cup {us[m].feature}
        /\ LastOf(us[m].feature, us, S) = us[m]
        /\ \A f : f # us[m].feature => LastOf(f, us, S) = LastOf(f, us, S \ {m})
    BY LastPosition
  <2> QED BY <1>0, <2>1
<1>2. \A f : f # g => (f \in Sets(us, S) <=> f \in Sets(us, R))
  BY <1>1 DEF Sets
<1>3. g \in Sets(us, S) <=> g \in WithEdges /\ us[m].value # Clear
  BY <1>0, <1>1, LastPosition DEF Sets, FeaturesOf
<1>4. DOMAIN before = (DOMAIN base \ FeaturesOf(us, R)) \cup Sets(us, R)
  BY <1>0 DEF After
<1>5. CASE us[m].value = Clear \/ g \notin WithEdges
  <2>1. Store!ApplyUpdate(at, before, us[m]) = [f \in DOMAIN before \ {g} |-> before[f]]
    BY <1>0, <1>5, OneUpdate
  <2>2. DOMAIN before \ {g} = (DOMAIN base \ FeaturesOf(us, S)) \cup Sets(us, S)
    BY <1>1, <1>2, <1>3, <1>4, <1>5
  <2>3. ASSUME NEW f \in DOMAIN before \ {g}
        PROVE  before[f] = IF f \in Sets(us, S) THEN Entry(at, LastOf(f, us, S)) ELSE base[f]
    BY <1>0, <1>1, <1>2, <1>4, <2>3 DEF After
  <2>4. Store!ApplyUpdate(at, before, us[m]) = After(at, base, us, S)
    BY <2>1, <2>2, <2>3 DEF After
  <2> QED BY <1>0, <2>4
<1>6. CASE ~(us[m].value = Clear \/ g \notin WithEdges)
  <2>1. Store!ApplyUpdate(at, before, us[m])
          = [f \in DOMAIN before \cup {g} |-> IF f = g THEN Entry(at, us[m]) ELSE before[f]]
    BY <1>0, <1>6, OneUpdate
  <2>2. DOMAIN before \cup {g} = (DOMAIN base \ FeaturesOf(us, S)) \cup Sets(us, S)
    BY <1>1, <1>2, <1>3, <1>4, <1>6
  <2>3. ASSUME NEW f \in DOMAIN before \cup {g}
        PROVE  (IF f = g THEN Entry(at, us[m]) ELSE before[f])
                 = IF f \in Sets(us, S) THEN Entry(at, LastOf(f, us, S)) ELSE base[f]
    BY <1>0, <1>1, <1>2, <1>3, <1>4, <1>6, <2>3 DEF After
  <2>4. Store!ApplyUpdate(at, before, us[m]) = After(at, base, us, S)
    BY <2>1, <2>2, <2>3 DEF After
  <2> QED BY <1>0, <2>4
<1> QED BY <1>5, <1>6

LEMMA AfterNothing ==
  ASSUME NEW at, NEW base, base = [f \in DOMAIN base |-> base[f]], NEW us
  PROVE  After(at, base, us, {}) = base
<1>1. FeaturesOf(us, {}) = {} /\ Sets(us, {}) = {}
  BY DEF FeaturesOf, Sets
<1>2. After(at, base, us, {}) = [f \in DOMAIN base |-> base[f]]
  BY <1>1 DEF After
<1> QED BY <1>2

Base(at, es, replace) == IF replace THEN NoEntries ELSE Unexpired(at, es)

LEMMA BaseIs ==
  ASSUME NEW at, NEW es, NEW replace
  PROVE  Base(at, es, replace) = [f \in DOMAIN Base(at, es, replace) |-> Base(at, es, replace)[f]]
<1>1. Unexpired(at, es) = [f \in DOMAIN Unexpired(at, es) |-> Unexpired(at, es)[f]]
  BY DEF Unexpired, Restrict
<1>2. NoEntries = [f \in DOMAIN NoEntries |-> NoEntries[f]]
  BY DEF NoEntries
<1> QED BY <1>1, <1>2 DEF Base

\* The fold of the store computes After, one position at a time.
LEMMA FoldOfUpdates ==
  ASSUME NEW at, NEW base, base = [f \in DOMAIN base |-> base[f]], NEW E, NEW us \in Seq(E)
  PROVE  Store!FoldLeft(LAMBDA acc, u : Store!ApplyUpdate(at, acc, u), base, us)
           = After(at, base, us, DOMAIN us)
<1> DEFINE Eq(f) == f = [s \in SUBSET DOMAIN us |->
                           IF s = {} THEN base
                           ELSE Store!ApplyUpdate(at, f[s \ {Max(s)}], us[Max(s)])]
           iter == CHOOSE f : Eq(f)
<1>1. Len(us) \in Nat /\ DOMAIN us = 1..Len(us)
  BY LenProperties
<1>2. Store!FoldLeft(LAMBDA acc, u : Store!ApplyUpdate(at, acc, u), base, us) = iter[DOMAIN us]
  BY Zenon DEF Store!FoldLeft, Store!MapThenFoldSet, Store!Max, Max
<1>3. \A s \in SUBSET DOMAIN us : s # {} =>
        After(at, base, us, s)
          = Store!ApplyUpdate(at, After(at, base, us, s \ {Max(s)}), us[Max(s)])
  <2>1. SUFFICES ASSUME NEW s \in SUBSET (1..Len(us)), s # {}
                 PROVE  After(at, base, us, s)
                          = Store!ApplyUpdate(at, After(at, base, us, s \ {Max(s)}), us[Max(s)])
    BY <1>1
  <2>2. PICK m : m = Max(s)
    OBVIOUS
  <2>3. m \in s /\ \A y \in s : y <= m
    BY <1>1, <2>1, <2>2, MaxIsGreatest
  <2>4. s \in SUBSET Nat
    BY <1>1
  <2> QED BY <2>2, <2>3, <2>4, AfterStep
<1>4. \E f : Eq(f)
  <2> DEFINE g == [s \in SUBSET DOMAIN us |-> After(at, base, us, s)]
  <2>1. ASSUME NEW s \in SUBSET DOMAIN us
        PROVE  g[s] = IF s = {} THEN base
                      ELSE Store!ApplyUpdate(at, g[s \ {Max(s)}], us[Max(s)])
    <3>1. CASE s = {}
      BY <3>1, AfterNothing
    <3>2. CASE s # {}
      <4>1. s \ {Max(s)} \in SUBSET DOMAIN us
        OBVIOUS
      <4>2. g[s \ {Max(s)}] = After(at, base, us, s \ {Max(s)})
        BY <4>1
      <4> QED BY <1>3, <3>2, <4>2
    <3> QED BY <3>1, <3>2
  <2>2. g = [s \in SUBSET DOMAIN us |-> g[s]]
    OBVIOUS
  <2>3. Eq(g)
    <3> HIDE DEF g
    <3> QED BY <2>1, <2>2
  <2> HIDE DEF g, Eq
  <2> QED BY <2>3
<1>5. Eq(iter)
  BY <1>4, Zenon
<1> HIDE DEF iter
<1> DEFINE P == {s \in SUBSET DOMAIN us : iter[s] = After(at, base, us, s)}
<1>6. {} \in P
  BY <1>5, AfterNothing
<1>7. ASSUME NEW s \in SUBSET (1..Len(us)), s # {}, s \ {Max(s)} \in P PROVE s \in P
  <2>1. iter[s] = Store!ApplyUpdate(at, iter[s \ {Max(s)}], us[Max(s)])
    BY <1>1, <1>5, <1>7
  <2>2. iter[s \ {Max(s)}] = After(at, base, us, s \ {Max(s)})
    BY <1>7
  <2>3. iter[s] = After(at, base, us, s)
    BY <1>1, <1>3, <1>7, <2>1, <2>2
  <2> QED BY <1>1, <2>3
<1>8. SUBSET (1..Len(us)) \subseteq P
  <2> HIDE DEF P
  <2> QED BY <1>1, <1>6, <1>7, FoldInduction
<1>9. iter[DOMAIN us] = After(at, base, us, DOMAIN us)
  BY <1>1, <1>8
<1> QED BY <1>2, <1>9

\* Applying a batch update by update is what next_live_snapshot computes.
LEMMA JobIsNext ==
  ASSUME NEW at, NEW es, NEW job, NEW E, job.updates \in Seq(E)
  PROVE  Store!ApplyJob(at, es, job) = NextEntries(at, es, job.updates, job.replace)
<1>1. PICK base, us : base = Base(at, es, job.replace) /\ us = job.updates
  OBVIOUS
<1>2. Store!ApplyJob(at, es, job)
        = Store!FoldLeft(LAMBDA acc, u : Store!ApplyUpdate(at, acc, u), base, us)
  BY <1>1, SameWords, Zenon DEF Store!ApplyJob, Base
<1>3. @ = After(at, base, us, DOMAIN us)
  <2>1. base = [f \in DOMAIN base |-> base[f]]
    BY <1>1, BaseIs
  <2>2. us \in Seq(E)
    BY <1>1
  <2> QED BY <2>1, <2>2, FoldOfUpdates, Zenon
<1>4. /\ FeaturesOf(us, DOMAIN us) = Named(us)
      /\ \A f : LastOf(f, us, DOMAIN us) = LastFor(f, us)
  BY DEF FeaturesOf, Named, LastOf, LastFor, At
<1>5. PICK sets : sets = Sets(us, DOMAIN us)
  OBVIOUS
<1>6. sets = {f \in Named(us) \cap WithEdges : LastFor(f, us).value # Clear}
  BY <1>4, <1>5 DEF Sets
<1>7. After(at, base, us, DOMAIN us)
        = [f \in (DOMAIN base \ Named(us)) \cup sets |->
             IF f \in sets THEN Entry(at, LastFor(f, us)) ELSE base[f]]
  BY <1>4, <1>5 DEF After
<1>8. NextEntries(at, es, us, job.replace)
        = [f \in (DOMAIN base \ Named(us)) \cup sets |->
             IF f \in sets THEN Entry(at, LastFor(f, us)) ELSE base[f]]
  BY <1>1, <1>6, Zenon DEF NextEntries, Base, Entry
<1> QED BY <1>1, <1>2, <1>3, <1>7, <1>8

-----------------------------------------------------------------------------
(* Several batches: what the worker makes of them at once.                 *)

\* Updates are well-formed: what parsing a request yields.
IsUpdate(u) == u.feature \in Features /\ u.ttl \in BOOLEAN /\ u.t \in Nat
WellFormed(us) == \A i \in DOMAIN us : IsUpdate(us[i])
AllValid(us, at) == \A u \in Range(us) : Valid(u, at)

LEMMA RoundsUp ==
  ASSUME NEW t \in Nat
  PROVE  RoundUp(t) \in Nat /\ RoundUp(t) >= t
<1>1. Minute \in Nat /\ Minute > 0
  BY MinuteAssumption
<1>2. \A x \in Int : x % Minute \in 0..(Minute - 1)
  BY <1>1
<1>3. PICK r \in 0..(Minute - 1) : r = t % Minute
  BY <1>2
<1>4. PICK q \in 0..(Minute - 1) : q = (Minute - r) % Minute
  BY <1>1, <1>2
<1>5. RoundUp(t) = t + q
  BY <1>3, <1>4 DEF RoundUp
<1> QED BY <1>4, <1>5

\* An update that is valid when it is applied sets an entry that has yet to
\* expire.
LEMMA ValidLasts ==
  ASSUME NEW at \in Nat, NEW u, IsUpdate(u), Valid(u, at), u.value # Clear
  PROVE  Entry(at, u).until > at
<1>1. PICK x : x = Expiry(u, at)
  OBVIOUS
<1>2. x \in Nat /\ x > at
  BY <1>1 DEF IsUpdate, Valid, Expiry
<1>3. RoundUp(x) \in Nat /\ RoundUp(x) >= x
  BY <1>2, RoundsUp
<1> QED BY <1>1, <1>2, <1>3 DEF Entry

\* The last update of a feature among two lists, one after the other.
LEMMA NamedInTwo ==
  ASSUME NEW E, NEW a \in Seq(E), NEW b \in Seq(E)
  PROVE  /\ Named(a \o b) = Named(a) \cup Named(b)
         /\ \A f \in Named(b) : LastFor(f, a \o b) = LastFor(f, b)
         /\ \A f \in Named(a) \ Named(b) : LastFor(f, a \o b) = LastFor(f, a)
<1> DEFINE ab == a \o b
<1>1. /\ Len(a) \in Nat /\ DOMAIN a = 1..Len(a)
      /\ Len(b) \in Nat /\ DOMAIN b = 1..Len(b)
  BY LenProperties
<1>2. /\ ab \in Seq(E) /\ Len(ab) = Len(a) + Len(b)
      /\ \A i \in 1..(Len(a) + Len(b)) : ab[i] = IF i <= Len(a) THEN a[i] ELSE b[i - Len(a)]
  BY ConcatProperties
<1>3. DOMAIN ab = 1..(Len(a) + Len(b))
  BY <1>2, LenProperties
<1>4. /\ \A i \in 1..Len(a) : i \in DOMAIN ab /\ ab[i] = a[i]
      /\ \A i \in 1..Len(b) : i + Len(a) \in DOMAIN ab /\ ab[i + Len(a)] = b[i]
      /\ \A i \in DOMAIN ab : \/ i \in 1..Len(a)
                              \/ i - Len(a) \in 1..Len(b) /\ i = (i - Len(a)) + Len(a)
  <2>1. ASSUME NEW i \in 1..Len(a) PROVE i \in DOMAIN ab /\ ab[i] = a[i]
    <3>1. i \in 1..(Len(a) + Len(b)) /\ i <= Len(a)
      BY <1>1
    <3> QED BY <1>2, <1>3, <3>1
  <2>2. ASSUME NEW i \in 1..Len(b) PROVE i + Len(a) \in DOMAIN ab /\ ab[i + Len(a)] = b[i]
    <3>1. i + Len(a) \in 1..(Len(a) + Len(b)) /\ ~(i + Len(a) <= Len(a)) /\ (i + Len(a)) - Len(a) = i
      BY <1>1
    <3> QED BY <1>2, <1>3, <3>1
  <2>3. ASSUME NEW i \in DOMAIN ab
        PROVE  \/ i \in 1..Len(a)
               \/ i - Len(a) \in 1..Len(b) /\ i = (i - Len(a)) + Len(a)
    BY <1>1, <1>3
  <2> QED BY <2>1, <2>2, <2>3
<1> DEFINE In(f, us) == {i \in DOMAIN us : us[i].feature = f}
<1> HIDE DEF ab
<1>5. Named(ab) = Named(a) \cup Named(b)
  <2>1. ASSUME NEW f \in Named(ab) PROVE f \in Named(a) \cup Named(b)
    BY <1>1, <1>4 DEF Named
  <2>2. ASSUME NEW f \in Named(a) \cup Named(b) PROVE f \in Named(ab)
    BY <1>1, <1>4 DEF Named
  <2> QED BY <2>1, <2>2
<1>6. ASSUME NEW f \in Named(b) PROVE LastFor(f, ab) = LastFor(f, b)
  <2>1. PICK S, T : S = In(f, b) /\ T = In(f, ab)
    OBVIOUS
  <2>2. S \in SUBSET (1..Len(b)) /\ S # {}
    BY <1>1, <1>6, <2>1 DEF Named
  <2>3. PICK m \in S : m = Max(S) /\ \A y \in S : y <= m
    BY <1>1, <2>2, MaxIsGreatest
  <2>4. m + Len(a) \in T /\ ab[m + Len(a)] = b[m] /\ T \in SUBSET Nat
    BY <1>1, <1>3, <1>4, <2>1, <2>2
  <2>5. ASSUME NEW y \in T PROVE y <= m + Len(a)
    <3>1. CASE y \in 1..Len(a)
      BY <1>1, <2>2, <3>1
    <3>2. CASE y - Len(a) \in 1..Len(b) /\ y = (y - Len(a)) + Len(a)
      <4>1. y - Len(a) \in S
        <5>1. ab[y] = b[y - Len(a)]
          BY <1>4, <3>2
        <5> QED BY <1>1, <2>1, <2>5, <3>2, <5>1
      <4> QED BY <1>1, <2>2, <2>3, <3>2, <4>1
    <3> QED BY <1>4, <2>1, <3>1, <3>2
  <2>6. PICK k \in T : k = m + Len(a) /\ \A y \in T : y <= k
    BY <2>4, <2>5
  <2>7. Max(T) = m + Len(a)
    <3>1. \A x \in T : (\A y \in T : x >= y) <=> x = k
      BY <2>4, <2>6
    <3> QED BY <2>6, <3>1 DEF Max
  <2> QED BY <2>1, <2>3, <2>4, <2>7 DEF LastFor
<1>7. ASSUME NEW f \in Named(a) \ Named(b) PROVE LastFor(f, ab) = LastFor(f, a)
  <2>1. In(f, ab) = In(f, a)
    <3>1. ASSUME NEW i \in In(f, ab) PROVE i \in In(f, a)
      <4>1. CASE i \in 1..Len(a)
        BY <1>1, <1>4, <3>1, <4>1
      <4>2. CASE i - Len(a) \in 1..Len(b) /\ i = (i - Len(a)) + Len(a)
        <5>1. b[i - Len(a)].feature = f
          BY <1>4, <3>1, <4>2
        <5> QED BY <1>1, <1>7, <4>2, <5>1 DEF Named
      <4> QED BY <1>4, <3>1, <4>1, <4>2
    <3>2. ASSUME NEW i \in In(f, a) PROVE i \in In(f, ab)
      BY <1>1, <1>4, <3>2
    <3> QED BY <3>1, <3>2
  <2>2. Max(In(f, a)) \in In(f, a)
    <3>1. In(f, a) \in SUBSET (1..Len(a)) /\ In(f, a) # {}
      BY <1>1, <1>7 DEF Named
    <3> HIDE DEF In
    <3> QED BY <1>1, <3>1, MaxIsGreatest
  <2>3. ab[Max(In(f, a))] = a[Max(In(f, a))]
    <3>1. \A i \in In(f, a) : ab[i] = a[i]
      BY <1>1, <1>4
    <3> HIDE DEF In
    <3> QED BY <2>2, <3>1
  <2> QED BY <2>1, <2>3 DEF LastFor
<1> QED BY <1>5, <1>6, <1>7 DEF ab

\* An entry a batch leaves has yet to expire, if its updates are valid.
LEMMA NextUnexpired ==
  ASSUME NEW at \in Nat, NEW es, NEW E, NEW a \in Seq(E), NEW replace,
         WellFormed(a), AllValid(a, at)
  PROVE  \A f \in DOMAIN NextEntries(at, es, a, replace) :
           NextEntries(at, es, a, replace)[f].until > at
<1>1. PICK base, x, A :
        /\ base = Base(at, es, replace) /\ x = NextEntries(at, es, a, replace)
        /\ A = {f \in Named(a) \cap WithEdges : LastFor(f, a).value # Clear}
  OBVIOUS
<1>2. x = [f \in (DOMAIN base \ Named(a)) \cup A |->
             IF f \in A THEN Entry(at, LastFor(f, a)) ELSE base[f]]
  BY <1>1, Zenon DEF NextEntries, Base, Entry
<1>3. ASSUME NEW f \in DOMAIN x PROVE x[f].until > at
  <2>1. CASE f \in A
    <3>1. f \in Named(a) /\ LastFor(f, a).value # Clear
      BY <1>1, <2>1
    <3>2. PICK u : u = LastFor(f, a)
      OBVIOUS
    <3>3. Len(a) \in Nat /\ DOMAIN a = 1..Len(a)
      BY LenProperties
    <3>4. PICK S : S = {i \in DOMAIN a : a[i].feature = f}
      OBVIOUS
    <3>5. S \in SUBSET (1..Len(a)) /\ S # {}
      BY <3>1, <3>3, <3>4 DEF Named
    <3>6. Max(S) \in S
      BY <3>3, <3>5, MaxIsGreatest
    <3>7. Max(S) \in DOMAIN a /\ u = a[Max(S)]
      BY <3>2, <3>4, <3>6 DEF LastFor
    <3>8. IsUpdate(u) /\ Valid(u, at)
      BY <3>7 DEF WellFormed, AllValid, Range
    <3>9. Entry(at, u).until > at
      BY <3>1, <3>2, <3>8, ValidLasts
    <3> QED BY <1>2, <2>1, <3>2, <3>9
  <2>2. CASE f \notin A
    <3>1. f \in DOMAIN base /\ x[f] = base[f]
      BY <1>2, <2>2
    <3>2. base = Unexpired(at, es)
      BY <1>1, <3>1 DEF Base, NoEntries
    <3>3. base[f].until > at
      BY <3>1, <3>2 DEF Unexpired, Restrict
    <3> QED BY <3>1, <3>3
  <2> QED BY <2>1, <2>2
<1> QED BY <1>1, <1>3

\* The entries after a batch that replaces nothing.
NextKept(at, es, us) == NextEntries(at, es, us, FALSE)

\* Two batches of which the second replaces nothing are one, if the updates of
\* the first are valid.
LEMMA NextOfNext ==
  ASSUME NEW at \in Nat, NEW es, NEW E, NEW a \in Seq(E), NEW b \in Seq(E), NEW replace,
         WellFormed(a), AllValid(a, at)
  PROVE  NextKept(at, NextEntries(at, es, a, replace), b)
           = NextEntries(at, es, a \o b, replace)
<1> DEFINE says(us) == {f \in Named(us) \cap WithEdges : LastFor(f, us).value # Clear}
<1>1. PICK base, x, A, B, C, ab :
        /\ base = Base(at, es, replace) /\ x = NextEntries(at, es, a, replace)
        /\ A = says(a) /\ B = says(b) /\ C = says(a \o b) /\ ab = a \o b
  OBVIOUS
<1>2. /\ Named(ab) = Named(a) \cup Named(b)
      /\ \A f \in Named(b) : LastFor(f, ab) = LastFor(f, b)
      /\ \A f \in Named(a) \ Named(b) : LastFor(f, ab) = LastFor(f, a)
  BY <1>1, NamedInTwo
<1>3. x = [f \in (DOMAIN base \ Named(a)) \cup A |->
             IF f \in A THEN Entry(at, LastFor(f, a)) ELSE base[f]]
  BY <1>1, Zenon DEF NextEntries, Base, Entry
<1>4. \A f \in DOMAIN x : x[f].until > at
  BY <1>1, NextUnexpired
<1>5. Unexpired(at, x) = x
  <2>1. {f \in DOMAIN x : x[f].until > at} = DOMAIN x
    BY <1>4
  <2>2. Unexpired(at, x) = [f \in DOMAIN x |-> x[f]]
    BY <2>1 DEF Unexpired, Restrict
  <2> QED BY <1>3, <2>2
<1>6. NextEntries(at, x, b, FALSE)
        = [f \in (DOMAIN x \ Named(b)) \cup B |->
             IF f \in B THEN Entry(at, LastFor(f, b)) ELSE x[f]]
  BY <1>1, <1>5, Zenon DEF NextEntries, Entry
<1>7. NextEntries(at, es, ab, replace)
        = [f \in (DOMAIN base \ Named(ab)) \cup C |->
             IF f \in C THEN Entry(at, LastFor(f, ab)) ELSE base[f]]
  BY <1>1, Zenon DEF NextEntries, Base, Entry
<1>8. /\ A = {f \in Named(a) \cap WithEdges : LastFor(f, a).value # Clear}
      /\ B = {f \in Named(b) \cap WithEdges : LastFor(f, b).value # Clear}
      /\ C = {f \in Named(ab) \cap WithEdges : LastFor(f, ab).value # Clear}
  BY <1>1
<1>9. C = (A \ Named(b)) \cup B
  BY <1>2, <1>8
<1>10. (DOMAIN x \ Named(b)) \cup B = (DOMAIN base \ Named(ab)) \cup C
  BY <1>2, <1>3, <1>8, <1>9
<1>11. ASSUME NEW f \in (DOMAIN x \ Named(b)) \cup B
       PROVE  (IF f \in B THEN Entry(at, LastFor(f, b)) ELSE x[f])
                = IF f \in C THEN Entry(at, LastFor(f, ab)) ELSE base[f]
  <2>1. CASE f \in B
    BY <1>2, <1>8, <1>9, <2>1
  <2>2. CASE f \notin B /\ f \in A
    BY <1>2, <1>3, <1>8, <1>9, <2>2
  <2>3. CASE f \notin B /\ f \notin A
    BY <1>2, <1>3, <1>8, <1>9, <2>3
  <2> QED BY <2>1, <2>2, <2>3
<1>12. NextEntries(at, x, b, FALSE) = NextEntries(at, es, ab, replace)
  BY <1>6, <1>7, <1>10, <1>11
<1> QED BY <1>1, <1>12 DEF NextKept

\* What the store makes of a list of jobs.
OneByOne(at, es, js) ==
  Store!FoldLeft(LAMBDA x, job : Store!ApplyJob(at, x, job), es, js)

\* The entries after each of them, the ones before the first at 0.
JobByJob(at, es, js, acc) ==
  /\ OneByOne(at, es, js) = acc[Len(js)]
  /\ acc[0] = es
  /\ \A k \in 1..Len(js) : acc[k] = Store!ApplyJob(at, acc[k - 1], js[k])

\* The fold of the store applies one job after the other.
LEMMA FoldOfJobs ==
  ASSUME NEW at, NEW es, NEW J, NEW js \in Seq(J)
  PROVE  \E acc : JobByJob(at, es, js, acc)
<1> DEFINE Eq(f, n) == f = [s \in SUBSET (1..n) |->
                              IF s = {} THEN es
                              ELSE Store!ApplyJob(at, f[s \ {Max(s)}], js[Max(s)])]
           iter == CHOOSE f : Eq(f, Len(js))
           T == {n \in Nat : \E f : Eq(f, n)}
<1>1. Len(js) \in Nat /\ DOMAIN js = 1..Len(js)
  BY LenProperties
<1>2. OneByOne(at, es, js) = iter[1..Len(js)]
  <2>1. Store!FoldLeft(LAMBDA x, job : Store!ApplyJob(at, x, job), es, js)
          = (CHOOSE f : f = [s \in SUBSET DOMAIN js |->
                               IF s = {} THEN es
                               ELSE Store!ApplyJob(at, f[s \ {Max(s)}], js[Max(s)])])[DOMAIN js]
    BY Zenon DEF Store!FoldLeft, Store!MapThenFoldSet, Store!Max, Max
  <2>2. OneByOne(at, es, js) = Store!FoldLeft(LAMBDA x, job : Store!ApplyJob(at, x, job), es, js)
    BY Zenon DEF OneByOne
  <2> QED BY <1>1, <2>1, <2>2, Zenon
<1>3. 0 \in T
  <2>1. Eq([s \in SUBSET (1..0) |-> es], 0)
    <3>1. \A s \in SUBSET (1..0) : s = {}
      OBVIOUS
    <3> QED BY <3>1
  <2> QED BY <2>1
<1>4. ASSUME NEW n \in Nat, n \in T PROVE n + 1 \in T
  <2>1. PICK f : Eq(f, n)
    BY <1>4
  <2> DEFINE g == [s \in SUBSET (1..(n + 1)) |->
                     IF n + 1 \in s THEN Store!ApplyJob(at, f[s \ {n + 1}], js[n + 1]) ELSE f[s]]
  <2>2. ASSUME NEW s \in SUBSET (1..(n + 1))
        PROVE  g[s] = IF s = {} THEN es
                      ELSE Store!ApplyJob(at, g[s \ {Max(s)}], js[Max(s)])
    <3>1. CASE n + 1 \in s
      <4>1. PICK m : m = Max(s)
        OBVIOUS
      <4>2. m \in s /\ \A y \in s : y <= m
        <5>1. n + 1 \in Nat /\ s \in SUBSET (1..(n + 1)) /\ s # {}
          BY <3>1
        <5> QED BY <4>1, <5>1, MaxIsGreatest
      <4>3. m = n + 1
        BY <3>1, <4>2
      <4>4. n + 1 \notin s \ {n + 1} /\ s \ {n + 1} \in SUBSET (1..(n + 1))
        OBVIOUS
      <4>5. g[s \ {n + 1}] = f[s \ {n + 1}]
        BY <4>4
      <4> QED BY <3>1, <4>1, <4>3, <4>5
    <3>2. CASE n + 1 \notin s
      <4>1. s \in SUBSET (1..n)
        BY <3>2
      <4>2. g[s] = f[s]
        BY <3>2
      <4>3. CASE s = {}
        BY <2>1, <4>1, <4>2, <4>3
      <4>4. CASE s # {}
        <5>1. f[s] = Store!ApplyJob(at, f[s \ {Max(s)}], js[Max(s)])
          BY <2>1, <4>1, <4>4
        <5>2. s \ {Max(s)} \in SUBSET (1..(n + 1)) /\ n + 1 \notin s \ {Max(s)}
          BY <3>2
        <5>3. g[s \ {Max(s)}] = f[s \ {Max(s)}]
          BY <5>2
        <5> QED BY <4>2, <4>4, <5>1, <5>3
      <4> QED BY <4>3, <4>4
    <3> QED BY <3>1, <3>2
  <2>3. g = [s \in SUBSET (1..(n + 1)) |-> g[s]]
    OBVIOUS
  <2>4. Eq(g, n + 1)
    <3> HIDE DEF g
    <3> QED BY <2>2, <2>3
  <2> HIDE DEF g, Eq
  <2> QED BY <2>4
<1>5. Len(js) \in T
  <2> HIDE DEF T
  <2> QED BY <1>1, <1>3, <1>4, StepByStep
<1>6. Eq(iter, Len(js))
  BY <1>5, Zenon
<1> HIDE DEF iter
<1> DEFINE acc == [k \in 0..Len(js) |-> iter[1..k]]
<1>7. acc[0] = es /\ acc[Len(js)] = iter[1..Len(js)]
  <2>1. 1..0 = {} /\ 0 \in 0..Len(js) /\ Len(js) \in 0..Len(js)
    BY <1>1
  <2>2. iter[{}] = es
    BY <1>6
  <2> QED BY <2>1, <2>2
<1>8. ASSUME NEW k \in 1..Len(js) PROVE acc[k] = Store!ApplyJob(at, acc[k - 1], js[k])
  <2>1. PICK s, m : s = 1..k /\ m = Max(s)
    OBVIOUS
  <2>2. s \in SUBSET (1..Len(js)) /\ s # {} /\ k \in s /\ \A y \in s : y <= k
    <3>1. k \in Nat /\ 1 <= k /\ k <= Len(js)
      BY <1>1
    <3>2. s \in SUBSET (1..Len(js)) /\ k \in s /\ \A y \in s : y <= k
      BY <1>1, <2>1, <3>1
    <3> QED BY <3>2
  <2>3. m \in s /\ \A y \in s : y <= m
    BY <1>1, <2>1, <2>2, MaxIsGreatest
  <2>4. m = k
    BY <1>1, <2>1, <2>2, <2>3
  <2>5. s \ {k} = 1..(k - 1) /\ k \in 0..Len(js) /\ k - 1 \in 0..Len(js)
    BY <1>1, <2>1
  <2>6. iter[s] = Store!ApplyJob(at, iter[s \ {m}], js[m])
    BY <1>6, <2>1, <2>2
  <2> QED BY <2>1, <2>4, <2>5, <2>6
<1> HIDE DEF acc
<1>9. JobByJob(at, es, js, acc)
  BY <1>2, <1>7, <1>8 DEF JobByJob
<1> QED BY <1>9


\* A job as a client posts it.
IsJob(job) ==
  /\ job.updates \in Seq(Range(job.updates)) /\ WellFormed(job.updates)
  /\ job.replace \in BOOLEAN
Jobs(js) == js \in Seq(Range(js)) /\ \A i \in DOMAIN js : IsJob(js[i])

LEMMA TwoRanges ==
  ASSUME NEW E, NEW a \in Seq(E), NEW b \in Seq(E)
  PROVE  Range(a) \subseteq Range(a \o b)
<1>1. /\ Len(a) \in Nat /\ DOMAIN a = 1..Len(a) /\ Len(b) \in Nat
      /\ DOMAIN (a \o b) = 1..(Len(a) + Len(b))
      /\ \A i \in 1..Len(a) : (a \o b)[i] = a[i] /\ i \in 1..(Len(a) + Len(b))
  BY LenProperties, ConcatProperties
<1> QED BY <1>1 DEF Range

\* What a worker makes of a list of jobs.
ReplacingIn(js) == {i \in DOMAIN js : js[i].replace}
EffectiveOf(js) ==
  IF ReplacingIn(js) = {} THEN js ELSE SubSeq(js, Max(ReplacingIn(js)), Len(js))
UpdatesOf(js) == FlattenSeq([i \in DOMAIN EffectiveOf(js) |-> EffectiveOf(js)[i].updates])

\* The jobs that take effect end the list, and none but the first of them
\* replaces.
LEMMA EffectiveIs ==
  ASSUME NEW js, Jobs(js), Len(js) > 0
  PROVE  \E d \in 0..(Len(js) - 1) :
           /\ Len(EffectiveOf(js)) = Len(js) - d
           /\ DOMAIN EffectiveOf(js) = 1..(Len(js) - d)
           /\ \A i \in 1..(Len(js) - d) : EffectiveOf(js)[i] = js[d + i]
           /\ js[d + 1].replace \/ (d = 0 /\ ReplacingIn(js) = {})
           /\ js[d + 1].replace <=> ReplacingIn(js) # {}
           /\ \A i \in 2..(Len(js) - d) : ~js[d + i].replace
<1>1. Len(js) \in Nat /\ DOMAIN js = 1..Len(js) /\ js \in Seq(Range(js))
  BY LenProperties DEF Jobs
<1>2. CASE ReplacingIn(js) = {}
  <2>1. EffectiveOf(js) = js
    BY <1>2 DEF EffectiveOf
  <2>2. 0 \in 0..(Len(js) - 1) /\ Len(js) - 0 = Len(js) /\ \A i \in 1..Len(js) : 0 + i = i
    BY <1>1
  <2>3. \A i \in 1..Len(js) : ~js[i].replace
    BY <1>1, <1>2 DEF ReplacingIn
  <2>4. 0 + 1 \in 1..Len(js) /\ \A i \in 2..(Len(js) - 0) : 0 + i \in 1..Len(js)
    BY <1>1
  <2> QED BY <1>1, <1>2, <2>1, <2>2, <2>3, <2>4
<1>3. CASE ReplacingIn(js) # {}
  <2>1. PICK R, m : R = ReplacingIn(js) /\ m = Max(R)
    OBVIOUS
  <2>2. R \in SUBSET (1..Len(js)) /\ R # {}
    BY <1>1, <1>3, <2>1 DEF ReplacingIn
  <2>3. m \in R /\ \A y \in R : y <= m
    BY <1>1, <2>1, <2>2, MaxIsGreatest
  <2>4. m \in 1..Len(js) /\ js[m].replace /\ \A i \in 1..Len(js) : i > m => ~js[i].replace
    <3>1. m \in 1..Len(js) /\ js[m].replace
      BY <1>1, <2>1, <2>3 DEF ReplacingIn
    <3>2. \A i \in 1..Len(js) : js[i].replace => i \in R
      BY <1>1, <2>1 DEF ReplacingIn
    <3>3. \A i \in 1..Len(js) : i > m => i \notin R
      BY <1>1, <2>3, <3>1
    <3> QED BY <3>1, <3>2, <3>3
  <2>5. PICK d \in 0..(Len(js) - 1) : d = m - 1 /\ m = d + 1
    BY <1>1, <2>4
  <2>6. PICK e : e = SubSeq(js, m, Len(js)) /\ e = EffectiveOf(js)
    BY <1>3, <2>1 DEF EffectiveOf
  <2>7. /\ Len(e) = Len(js) - d /\ DOMAIN e = 1..(Len(js) - d)
        /\ \A i \in 1..(Len(js) - d) : e[i] = js[d + i]
    <3>1. /\ m \in Int /\ Len(js) \in Int /\ m <= Len(js)
          /\ \A i \in m..Len(js) : js[i] \in Range(js)
      BY <1>1, <2>4 DEF Range
    <3>2. /\ e \in Seq(Range(js))
          /\ Len(e) = Len(js) - m + 1
          /\ \A i \in 1..(Len(js) - m + 1) : e[i] = js[m + i - 1]
      <4>1. /\ SubSeq(js, m, Len(js)) \in Seq(Range(js))
            /\ Len(SubSeq(js, m, Len(js))) = IF m <= Len(js) THEN Len(js) - m + 1 ELSE 0
            /\ \A i \in 1..(Len(js) - m + 1) : SubSeq(js, m, Len(js))[i] = js[m + i - 1]
        BY <3>1, SubSeqProperties
      <4> QED BY <2>6, <3>1, <4>1
    <3>3. Len(js) - m + 1 = Len(js) - d /\ \A i \in 1..(Len(js) - d) : m + i - 1 = d + i
      BY <1>1, <2>4, <2>5
    <3>4. DOMAIN e = 1..Len(e)
      BY <3>2, LenProperties
    <3> QED BY <3>2, <3>3, <3>4
  <2>8. \A i \in 2..(Len(js) - d) : ~js[d + i].replace
    <3>1. \A i \in 2..(Len(js) - d) : d + i \in 1..Len(js) /\ d + i > m
      BY <1>1, <2>5
    <3> QED BY <2>4, <3>1
  <2>9. js[d + 1].replace /\ ReplacingIn(js) # {}
    BY <1>3, <2>4, <2>5
  <2>10. /\ Len(EffectiveOf(js)) = Len(js) - d
         /\ DOMAIN EffectiveOf(js) = 1..(Len(js) - d)
         /\ \A i \in 1..(Len(js) - d) : EffectiveOf(js)[i] = js[d + i]
    BY <2>6, <2>7
  <2> QED BY <2>8, <2>9, <2>10
<1> QED BY <1>2, <1>3

\* The updates of the jobs that take effect, job by job: the list flat[k] is
\* the updates of the first k of them, d jobs before them have none.
JobsFlatten(js, d, E, flat) ==
  /\ d \in 0..(Len(js) - 1)
  /\ js[d + 1].replace \/ (d = 0 /\ ReplacingIn(js) = {})
  /\ js[d + 1].replace <=> ReplacingIn(js) # {}
  /\ \A i \in 2..(Len(js) - d) : ~js[d + i].replace
  /\ E = {u \in UNION {Range(js[i].updates) : i \in (d + 1)..Len(js)} : IsUpdate(u)}
  /\ \A i \in 1..(Len(js) - d) : js[d + i].updates \in Seq(E)
  /\ UpdatesOf(js) = flat[Len(js) - d] /\ flat[1] = js[d + 1].updates
  /\ \A k \in 2..(Len(js) - d) : flat[k] = flat[k - 1] \o js[d + k].updates
  /\ \A k \in 1..(Len(js) - d) : flat[k] \in Seq(E)

LEMMA FlattenedJobs ==
  ASSUME NEW js, Jobs(js), Len(js) > 0
  PROVE  \E d, E, flat : JobsFlatten(js, d, E, flat)
<1>1. Len(js) \in Nat /\ DOMAIN js = 1..Len(js) /\ js \in Seq(Range(js))
  BY LenProperties DEF Jobs
<1>3. PICK d \in 0..(Len(js) - 1) :
        /\ Len(EffectiveOf(js)) = Len(js) - d
        /\ DOMAIN EffectiveOf(js) = 1..(Len(js) - d)
        /\ \A i \in 1..(Len(js) - d) : EffectiveOf(js)[i] = js[d + i]
        /\ js[d + 1].replace \/ (d = 0 /\ ReplacingIn(js) = {})
        /\ js[d + 1].replace <=> ReplacingIn(js) # {}
        /\ \A i \in 2..(Len(js) - d) : ~js[d + i].replace
  BY EffectiveIs
<1>4. PICK n \in Nat : n = Len(js) - d /\ n > 0
  <2>1. Len(js) - d \in Nat /\ Len(js) - d > 0
    BY <1>1
  <2> QED BY <2>1
<1>5. PICK ss, E :
        /\ ss = [i \in DOMAIN EffectiveOf(js) |-> EffectiveOf(js)[i].updates]
        /\ E = {u \in UNION {Range(js[i].updates) : i \in (d + 1)..Len(js)} : IsUpdate(u)}
  OBVIOUS
<1>6. /\ ss = [i \in 1..n |-> ss[i]]
      /\ \A i \in 1..n : ss[i] = js[d + i].updates /\ d + i \in 1..Len(js)
  BY <1>1, <1>3, <1>4, <1>5
<1>7. \A i \in 1..n : ss[i] \in Seq(E)
  <2>1. ASSUME NEW i \in 1..n PROVE ss[i] \in Seq(E)
    <3>1. PICK us : us = js[d + i].updates
      OBVIOUS
    <3>2. us \in Seq(Range(us)) /\ WellFormed(us)
      BY <1>1, <1>6, <3>1 DEF Jobs, IsJob
    <3>3. Range(us) \subseteq E
      <4>1. \A j \in DOMAIN us : IsUpdate(us[j])
        BY <3>2 DEF WellFormed
      <4>2. \A u \in Range(us) : IsUpdate(u)
        BY <4>1 DEF Range
      <4>3. d + i \in (d + 1)..Len(js)
        BY <1>1, <1>4
      <4>4. Range(us) \subseteq UNION {Range(js[j].updates) : j \in (d + 1)..Len(js)}
        BY <3>1, <4>3
      <4> QED BY <1>5, <4>2, <4>4
    <3>4. us \in Seq(E)
      BY <3>2, <3>3, SeqMonotonic
    <3> QED BY <1>6, <3>1, <3>4
  <2> QED BY <2>1
<1>8. ss \in Seq(Seq(E)) /\ Len(ss) = n
  <2>1. ss \in [1..n -> Seq(E)]
    BY <1>6, <1>7
  <2> QED BY <2>1
<1>9. PICK flat : /\ FlattenSeq(ss) = flat[n] /\ flat[1] = ss[1]
                  /\ \A k \in 2..n : flat[k] = flat[k - 1] \o ss[k]
                  /\ \A k \in 1..n : flat[k] \in Seq(E)
  <2>1. Len(ss) > 0
    BY <1>4, <1>8
  <2>2. \E flat : /\ FlattenSeq(ss) = flat[Len(ss)] /\ flat[1] = ss[1]
                  /\ \A k \in 2..Len(ss) : flat[k] = flat[k - 1] \o ss[k]
                  /\ \A k \in 1..Len(ss) : flat[k] \in Seq(E)
    BY <1>8, <2>1, FlattenSteps
  <2> QED BY <1>8, <2>2
<1>10. UpdatesOf(js) = flat[n]
  BY <1>5, <1>9 DEF UpdatesOf
<1>11. JobsFlatten(js, d, E, flat)
  <2>1. /\ \A i \in 1..n : js[d + i].updates \in Seq(E)
        /\ flat[1] = js[d + 1].updates
        /\ \A k \in 2..n : flat[k] = flat[k - 1] \o js[d + k].updates
    <3>1. 1 \in 1..n /\ \A k \in 2..n : k \in 1..n
      BY <1>4
    <3>2. \A i \in 1..n : ss[i] = js[d + i].updates
      BY <1>6
    <3>3. \A i \in 1..n : js[d + i].updates \in Seq(E)
      BY <1>7, <3>2
    <3> QED BY <1>9, <3>1, <3>2, <3>3
  <2>2. Len(js) - d = n
    BY <1>4
  <2> QED BY <1>3, <1>5, <1>9, <1>10, <2>1, <2>2 DEF JobsFlatten
<1> QED BY <1>11

\* Every update that takes effect is one of some job's that no later one replaces.
LEMMA UpdatesAre ==
  ASSUME NEW js, Jobs(js), Len(js) > 0
  PROVE  /\ \E E : UpdatesOf(js) \in Seq(E)
         /\ WellFormed(UpdatesOf(js))
         /\ \A u \in Range(UpdatesOf(js)) : \E i \in 1..Len(js) :
              u \in Range(js[i].updates) /\ \A k \in (i + 1)..Len(js) : ~js[k].replace
<1>1. PICK d, E, flat : JobsFlatten(js, d, E, flat)
  BY FlattenedJobs
<1>2. Len(js) \in Nat
  BY LenProperties DEF Jobs
<1>3. PICK us : us = UpdatesOf(js)
  OBVIOUS
<1>4. us \in Seq(E)
  BY <1>1, <1>2, <1>3 DEF JobsFlatten
<1>5. \A i \in DOMAIN us : us[i] \in E
  BY <1>4, LenProperties, ElementOfSeq
<1>6. E = {u \in UNION {Range(js[i].updates) : i \in (d + 1)..Len(js)} : IsUpdate(u)}
  BY <1>1 DEF JobsFlatten
<1>7. WellFormed(us)
  BY <1>5, <1>6 DEF WellFormed
<1>8. \A u \in Range(us) : u \in E
  BY <1>5 DEF Range
<1>9. d \in 0..(Len(js) - 1) /\ \A i \in 2..(Len(js) - d) : ~js[d + i].replace
  BY <1>1 DEF JobsFlatten
<1>10. \A i \in (d + 1)..Len(js) :
         i \in 1..Len(js) /\ \A k \in (i + 1)..Len(js) : ~js[k].replace
  <2>1. SUFFICES ASSUME NEW i \in (d + 1)..Len(js), NEW k \in (i + 1)..Len(js)
                 PROVE  ~js[k].replace
    BY <1>2, <1>9
  <2>2. k - d \in 2..(Len(js) - d) /\ d + (k - d) = k
    BY <1>2, <1>9
  <2> QED BY <1>9, <2>2
<1> QED BY <1>3, <1>4, <1>6, <1>7, <1>8, <1>10

\* Coalescing: applying the updates of the effective jobs at once is applying
\* the jobs one after the other.
LEMMA CoalescedIsFold ==
  ASSUME NEW at \in Nat, NEW es, NEW js, Jobs(js), Len(js) > 0, AllValid(UpdatesOf(js), at)
  PROVE  OneByOne(at, es, js)
           = NextEntries(at, es, UpdatesOf(js), ReplacingIn(js) # {})
<1>1. Len(js) \in Nat /\ DOMAIN js = 1..Len(js) /\ js \in Seq(Range(js))
  BY LenProperties DEF Jobs
<1>2. PICK acc :
        /\ OneByOne(at, es, js) = acc[Len(js)]
        /\ acc[0] = es
        /\ \A k \in 1..Len(js) : acc[k] = Store!ApplyJob(at, acc[k - 1], js[k])
  <2>1. \E acc : JobByJob(at, es, js, acc)
    BY <1>1, FoldOfJobs
  <2> QED BY <2>1 DEF JobByJob
<1>3. PICK d, E, flat : JobsFlatten(js, d, E, flat)
  BY FlattenedJobs
<1>4. PICK n \in Nat : n = Len(js) - d /\ n > 0 /\ d \in 0..(Len(js) - 1)
  <2>1. d \in 0..(Len(js) - 1)
    BY <1>3 DEF JobsFlatten
  <2>2. Len(js) - d \in Nat /\ Len(js) - d > 0
    BY <1>1, <2>1
  <2> QED BY <2>1, <2>2
<1>5. PICK ss, r : ss = [i \in 1..n |-> js[d + i].updates] /\ r = (ReplacingIn(js) # {})
  OBVIOUS
<1>6. \A i \in 1..n : ss[i] = js[d + i].updates /\ d + i \in 1..Len(js)
  BY <1>1, <1>4, <1>5
<1>7. \A i \in 1..n : ss[i] \in Seq(E)
  BY <1>3, <1>4, <1>6 DEF JobsFlatten
<1>8. /\ E = {u \in UNION {Range(js[i].updates) : i \in (d + 1)..Len(js)} : IsUpdate(u)}
      /\ js[d + 1].replace \/ (d = 0 /\ ReplacingIn(js) = {})
      /\ js[d + 1].replace <=> ReplacingIn(js) # {}
      /\ \A i \in 2..n : ~js[d + i].replace
  BY <1>3, <1>4 DEF JobsFlatten
<1>9. /\ flat[1] = ss[1]
      /\ \A k \in 2..n : flat[k] = flat[k - 1] \o ss[k]
      /\ \A k \in 1..n : flat[k] \in Seq(E)
  <2>1. 1 \in 1..n /\ \A k \in 2..n : k \in 1..n
    BY <1>4
  <2>2. flat[1] = js[d + 1].updates /\ \A k \in 2..n : flat[k] = flat[k - 1] \o js[d + k].updates
    BY <1>3, <1>4 DEF JobsFlatten
  <2>3. \A k \in 1..n : flat[k] \in Seq(E)
    BY <1>3, <1>4 DEF JobsFlatten
  <2>4. \A i \in 1..n : ss[i] = js[d + i].updates
    BY <1>6
  <2> QED BY <2>1, <2>2, <2>3, <2>4
<1>10. UpdatesOf(js) = flat[n]
  BY <1>3, <1>4 DEF JobsFlatten
<1>11. \A k \in 1..n : WellFormed(flat[k])
  <2>1. ASSUME NEW k \in 1..n PROVE WellFormed(flat[k])
    <3>1. PICK us \in Seq(E) : us = flat[k]
      BY <1>9
    <3>2. \A i \in DOMAIN us : us[i] \in E
      BY LenProperties, ElementOfSeq
    <3> QED BY <1>8, <3>1, <3>2 DEF WellFormed
  <2> QED BY <2>1
<1>12. \A k \in 1..n : AllValid(flat[k], at)
  <2> DEFINE Q == {j \in Nat : j < n => AllValid(flat[n - j], at)}
  <2>1. 0 \in Q
    BY <1>4, <1>10
  <2>2. ASSUME NEW j \in Nat, j \in Q PROVE j + 1 \in Q
    <3>1. SUFFICES ASSUME j + 1 < n PROVE AllValid(flat[n - (j + 1)], at)
      OBVIOUS
    <3>2. PICK k \in 2..n : k = n - j /\ k - 1 = n - (j + 1)
      <4>1. n - j \in 2..n /\ (n - j) - 1 = n - (j + 1)
        BY <1>4, <3>1
      <4> QED BY <4>1
    <3>3. AllValid(flat[k], at) /\ flat[k] = flat[k - 1] \o ss[k]
      <4>1. j < n
        BY <1>4, <3>1
      <4>2. AllValid(flat[n - j], at)
        BY <2>2, <4>1
      <4> QED BY <1>9, <3>2, <4>2
    <3>4. flat[k - 1] \in Seq(E) /\ ss[k] \in Seq(E)
      BY <1>4, <1>7, <1>9
    <3>5. Range(flat[k - 1]) \subseteq Range(flat[k - 1] \o ss[k])
      BY <3>4, TwoRanges
    <3> QED BY <3>2, <3>3, <3>5 DEF AllValid
  <2>3. Nat \subseteq Q
    <3> HIDE DEF Q
    <3> QED BY <2>1, <2>2, StepByStep
  <2>4. \A k \in 1..n : n - k \in Nat /\ n - k < n /\ n - (n - k) = k
    BY <1>4
  <2> QED BY <2>3, <2>4
<1> DEFINE M == {j \in Nat : j + 1 <= n => acc[d + (j + 1)] = NextEntries(at, es, flat[j + 1], r)}
<1>13. 0 \in M
  <2>1. PICK k \in 1..Len(js) : k = d + 1 /\ k - 1 = d /\ ss[1] = js[k].updates
    <3>1. 1 \in 1..n /\ (d + 1) - 1 = d
      BY <1>1, <1>4
    <3>2. d + 1 \in 1..Len(js) /\ ss[1] = js[d + 1].updates
      BY <1>6, <3>1
    <3> QED BY <3>1, <3>2
  <2>2. acc[k] = Store!ApplyJob(at, acc[d], js[k])
    BY <1>2, <2>1
  <2>3. acc[k] = NextEntries(at, acc[d], ss[1], js[k].replace)
    <3>1. js[k].updates \in Seq(E)
      BY <1>4, <1>7, <2>1
    <3>2. Store!ApplyJob(at, acc[d], js[k])
            = NextEntries(at, acc[d], js[k].updates, js[k].replace)
      BY <3>1, JobIsNext, Zenon
    <3> QED BY <2>1, <2>2, <3>2, Zenon
  <2>4. NextEntries(at, acc[d], ss[1], js[k].replace) = NextEntries(at, es, ss[1], r)
    <3>1. js[k].replace \in BOOLEAN
      BY <1>1, <2>1 DEF Jobs, IsJob
    <3>2. CASE js[k].replace
      <4>1. js[k].replace = TRUE /\ r = TRUE
        BY <1>5, <1>8, <2>1, <3>1, <3>2
      <4>2. NextEntries(at, acc[d], ss[1], TRUE) = NextEntries(at, es, ss[1], TRUE)
        BY DEF NextEntries
      <4> QED BY <4>1, <4>2
    <3>3. CASE ~js[k].replace
      <4>1. js[k].replace = FALSE /\ r = FALSE /\ d = 0
        BY <1>5, <1>8, <2>1, <3>1, <3>3
      <4> QED BY <1>2, <4>1
    <3> QED BY <3>2, <3>3
  <2>5. d + (0 + 1) = k /\ flat[0 + 1] = ss[1]
    BY <1>9, <2>1
  <2> QED BY <2>3, <2>4, <2>5
<1>14. ASSUME NEW j \in Nat, j \in M PROVE j + 1 \in M
  <2>1. SUFFICES ASSUME (j + 1) + 1 <= n
                 PROVE  acc[d + ((j + 1) + 1)] = NextEntries(at, es, flat[(j + 1) + 1], r)
    OBVIOUS
  <2>2. PICK i \in 2..n : i = (j + 1) + 1 /\ i - 1 = j + 1
    BY <1>4, <2>1
  <2>3. acc[d + (i - 1)] = NextEntries(at, es, flat[i - 1], r)
    BY <1>4, <1>14, <2>2
  <2>4. PICK k \in 1..Len(js) : k = d + i /\ k - 1 = d + (i - 1) /\ ss[i] = js[k].updates
    <3>1. i \in 1..n /\ (d + i) - 1 = d + (i - 1)
      BY <1>4
    <3>2. d + i \in 1..Len(js) /\ ss[i] = js[d + i].updates
      BY <1>6, <3>1
    <3> QED BY <3>1, <3>2
  <2>5. js[k].replace = FALSE
    BY <1>1, <1>4, <1>8, <2>4 DEF Jobs, IsJob
  <2>6. i \in 1..n /\ i - 1 \in 1..n
    BY <1>4
  <2>7. ss[i] \in Seq(E) /\ flat[i - 1] \in Seq(E) /\ flat[i] = flat[i - 1] \o ss[i]
    BY <1>7, <1>9, <2>6
  <2>8. acc[k] = NextEntries(at, acc[k - 1], ss[i], FALSE)
    <3>1. js[k].updates \in Seq(E)
      BY <2>4, <2>7
    <3>2. Store!ApplyJob(at, acc[k - 1], js[k])
            = NextEntries(at, acc[k - 1], js[k].updates, js[k].replace)
      BY <3>1, JobIsNext, Zenon
    <3>3. acc[k] = Store!ApplyJob(at, acc[k - 1], js[k])
      BY <1>2
    <3> QED BY <2>4, <2>5, <3>2, <3>3, Zenon
  <2>9. WellFormed(flat[i - 1]) /\ AllValid(flat[i - 1], at)
    BY <1>11, <1>12, <2>6
  <2>10. NextEntries(at, NextEntries(at, es, flat[i - 1], r), ss[i], FALSE)
           = NextEntries(at, es, flat[i], r)
    <3>1. PICK a \in Seq(E), b \in Seq(E) : a = flat[i - 1] /\ b = ss[i]
      BY <2>7
    <3>2. WellFormed(a) /\ AllValid(a, at)
      BY <2>9, <3>1
    <3>3. NextKept(at, NextEntries(at, es, a, r), b) = NextEntries(at, es, a \o b, r)
      <4>1. WellFormed(a)
        BY <3>2
      <4>2. AllValid(a, at)
        BY <3>2
      <4>3. a \in Seq(E) /\ b \in Seq(E)
        OBVIOUS
      <4> QED BY <4>1, <4>2, <4>3, NextOfNext
    <3>4. a \o b = flat[i]
      BY <2>7, <3>1
    <3> QED BY <3>1, <3>3, <3>4 DEF NextKept
  <2> QED BY <2>2, <2>3, <2>4, <2>8, <2>10
<1>15. Nat \subseteq M
  <2> HIDE DEF M
  <2> QED BY <1>13, <1>14, StepByStep
<1>16. acc[Len(js)] = NextEntries(at, es, flat[n], r)
  <2>1. n - 1 \in Nat /\ (n - 1) + 1 = n /\ d + n = Len(js)
    BY <1>1, <1>4
  <2> QED BY <1>15, <2>1
<1> QED BY <1>2, <1>5, <1>10, <1>16, Zenon
-----------------------------------------------------------------------------
(* The inductive invariant of the refinement: what the queue holds, and     *)
(* what the worker is about to publish.                                     *)

\* The history of the acceptances: each at an instant,
Since(js) == \A i \in DOMAIN js : js[i].since \in Nat
\* and all of them by t.
AcceptedBy(js, t) == \A i \in DOMAIN js : js[i].since <= t

JobsOK ==
  /\ Jobs(queue) /\ Jobs(worker.batch) /\ now \in 0..MaxTime
  /\ Since(queue) /\ Since(worker.batch)
  /\ AcceptedBy(queue, now) /\ AcceptedBy(worker.batch, now)
  /\ worker.pc \in {"off", "idle", "prewarming"} => worker.batch = <<>>
  /\ worker.pc \in {"taken", "applying"} => worker.batch # <<>>

\* The snapshot the worker builds engines for is the published one with the
\* updates of its jobs, each valid at the instant it took, by which all of them
\* had been accepted.
SwapOK ==
  worker.pc = "applying" =>
    /\ worker.at \in 0..now /\ AcceptedBy(worker.batch, worker.at)
    /\ AllValid(Updates, worker.at)
    /\ worker.next = [version |-> live.version + 1,
                      entries |-> NextEntries(worker.at, live.entries, Updates, Replacing # {})]

RefInv == IInv /\ JobsOK /\ SwapOK

\* Two lists of jobs are lists over one set.
LEMMA JobsTogether ==
  ASSUME NEW a, Jobs(a), NEW b, Jobs(b), NEW j
  PROVE  \E J : a \in Seq(J) /\ b \in Seq(J) /\ j \in J
<1>1. PICK J : J = Range(a) \cup Range(b) \cup {j}
  OBVIOUS
<1>2. Range(a) \subseteq J /\ Range(b) \subseteq J /\ j \in J
  BY <1>1
<1>3. a \in Seq(J)
  BY <1>2, SeqMonotonic DEF Jobs
<1>4. b \in Seq(J)
  BY <1>2, SeqMonotonic DEF Jobs
<1> QED BY <1>2, <1>3, <1>4

LEMMA NoJobs == Jobs(<<>>) /\ Since(<<>>) /\ \A t : AcceptedBy(<<>>, t)
<1>1. <<>> \in Seq(Range(<<>>)) /\ DOMAIN <<>> = {}
  BY EmptySeq
<1> QED BY <1>1 DEF Jobs, Since, AcceptedBy

\* Time goes on.
LEMMA AcceptedLater ==
  ASSUME NEW js, Since(js), NEW t \in Nat, AcceptedBy(js, t), NEW u \in Nat, t <= u
  PROVE  AcceptedBy(js, u)
BY DEF Since, AcceptedBy

LEMMA JobsAppend ==
  ASSUME NEW js, Jobs(js), Since(js), NEW t \in Nat, AcceptedBy(js, t),
         NEW job, IsJob(job), job.since = t
  PROVE  Jobs(Append(js, job)) /\ Since(Append(js, job)) /\ AcceptedBy(Append(js, job), t)
<1>1. js \in Seq(Range(js)) /\ Len(js) \in Nat /\ DOMAIN js = 1..Len(js)
  BY LenProperties DEF Jobs
<1>2. PICK all : all = Append(js, job)
  OBVIOUS
<1>3. /\ all \in Seq(Range(all)) /\ Len(all) = Len(js) + 1 /\ DOMAIN all = 1..(Len(js) + 1)
      /\ all[Len(js) + 1] = job /\ \A i \in 1..Len(js) : all[i] = js[i]
  BY <1>1, <1>2, AppendRange
<1>4. \A i \in 1..Len(js) : IsJob(js[i])
  BY <1>1 DEF Jobs
<1>5. \A i \in 1..(Len(js) + 1) : i \in 1..Len(js) \/ i = Len(js) + 1
  BY <1>1
<1>6. \A i \in DOMAIN all : IsJob(all[i])
  BY <1>3, <1>4, <1>5
<1>7. \A i \in 1..Len(js) : js[i].since \in Nat /\ js[i].since <= t
  BY <1>1 DEF Since, AcceptedBy
<1>8. \A i \in DOMAIN all : all[i].since \in Nat /\ all[i].since <= t
  BY <1>3, <1>5, <1>7
<1> QED BY <1>2, <1>3, <1>6, <1>8 DEF Jobs, Since, AcceptedBy

LEMMA ConcatAppend ==
  ASSUME NEW J, NEW s \in Seq(J), NEW t \in Seq(J), NEW j \in J
  PROVE  /\ s \o Append(t, j) = Append(s \o t, j)
         /\ Append(s \o t, j) # <<>>
         /\ Last(Append(s \o t, j)) = j
<1>1. s \o t \in Seq(J) /\ <<j>> \in Seq(J)
  BY ConcatProperties
<1>2. Append(t, j) = t \o <<j>> /\ Append(s \o t, j) = (s \o t) \o <<j>>
  BY <1>1, AppendIsConcat
<1>3. (s \o t) \o <<j>> = s \o (t \o <<j>>)
  BY <1>1, ConcatAssociative
<1>4. PICK u \in Seq(J) : u = s \o t
  BY <1>1
<1>5. Append(u, j) # <<>> /\ Len(Append(u, j)) = Len(u) + 1 /\ Append(u, j)[Len(u) + 1] = j
  BY AppendProperties
<1> QED BY <1>2, <1>3, <1>4, <1>5 DEF Last

LEMMA ConcatParts ==
  ASSUME NEW J, NEW s \in Seq(J), NEW t \in Seq(J)
  PROVE  /\ Len(s \o t) = Len(s) + Len(t) /\ Len(s) \in Nat /\ Len(t) \in Nat
         /\ \A i \in 1..Len(s) : (s \o t)[i] = s[i]
         /\ SubSeq(s \o t, 1, Len(s)) = s
         /\ SubSeq(s \o t, Len(s) + 1, Len(s \o t)) = t
<1>1. Len(s) \in Nat /\ Len(t) \in Nat
  BY LenProperties
<1>2. PICK u \in Seq(J) :
        /\ u = s \o t /\ Len(u) = Len(s) + Len(t)
        /\ \A i \in 1..(Len(s) + Len(t)) : u[i] = IF i <= Len(s) THEN s[i] ELSE t[i - Len(s)]
  <2>1. /\ s \o t \in Seq(J) /\ Len(s \o t) = Len(s) + Len(t)
        /\ \A i \in 1..(Len(s) + Len(t)) :
             (s \o t)[i] = IF i <= Len(s) THEN s[i] ELSE t[i - Len(s)]
    BY ConcatProperties
  <2> QED BY <2>1
<1>3. \A i \in 1..Len(s) : u[i] = s[i]
  BY <1>1, <1>2
<1>4. \A i \in 1..Len(t) : u[Len(s) + i] = t[i]
  <2>1. ASSUME NEW i \in 1..Len(t) PROVE u[Len(s) + i] = t[i]
    <3>1. /\ Len(s) + i \in 1..(Len(s) + Len(t)) /\ ~(Len(s) + i <= Len(s))
          /\ (Len(s) + i) - Len(s) = i
      BY <1>1
    <3> QED BY <1>2, <3>1
  <2> QED BY <2>1
<1>5. \A i \in 1..Len(u) : u[i] \in J
  BY ElementOfSeq
<1>6. SubSeq(u, 1, Len(s)) = s
  <2>1. PICK v : v = SubSeq(u, 1, Len(s))
    OBVIOUS
  <2>2. \A i \in 1..Len(s) : u[i] \in J
    BY <1>1, <1>2, <1>5
  <2>3. /\ SubSeq(u, 1, Len(s)) \in Seq(J)
        /\ Len(SubSeq(u, 1, Len(s))) = IF 1 <= Len(s) THEN Len(s) - 1 + 1 ELSE 0
        /\ \A i \in 1..(Len(s) - 1 + 1) : SubSeq(u, 1, Len(s))[i] = u[1 + i - 1]
    <3>1. 1 \in Int /\ Len(s) \in Int
      BY <1>1
    <3> QED BY <2>2, <3>1, SubSeqProperties
  <2>4. v \in Seq(J) /\ Len(v) = Len(s) /\ \A i \in 1..Len(s) : v[i] = s[i]
    BY <1>1, <1>3, <2>1, <2>3
  <2>5. v = s
    BY <2>4, SeqEqual
  <2> QED BY <2>1, <2>5
<1>7. SubSeq(u, Len(s) + 1, Len(u)) = t
  <2>1. PICK m, n, v : m = Len(s) + 1 /\ n = Len(u) /\ v = SubSeq(u, m, n)
    OBVIOUS
  <2>2. \A i \in m..n : u[i] \in J
    BY <1>1, <1>5, <2>1
  <2>3. /\ SubSeq(u, m, n) \in Seq(J)
        /\ Len(SubSeq(u, m, n)) = IF m <= n THEN n - m + 1 ELSE 0
        /\ \A i \in 1..(n - m + 1) : SubSeq(u, m, n)[i] = u[m + i - 1]
    <3>1. m \in Int /\ n \in Int
      BY <1>1, <1>2, <2>1
    <3> QED BY <2>2, <3>1, SubSeqProperties
  <2>4. n - m + 1 = Len(t) /\ (m <= n <=> Len(t) # 0)
    BY <1>1, <1>2, <2>1
  <2>5. \A i \in 1..Len(t) : m + i - 1 = Len(s) + i
    BY <1>1, <2>1
  <2>6. v \in Seq(J) /\ Len(v) = Len(t) /\ \A i \in 1..Len(t) : v[i] = t[i]
    BY <1>1, <1>4, <2>1, <2>3, <2>4, <2>5
  <2>7. v = t
    BY <2>6, SeqEqual
  <2> QED BY <2>1, <2>7
<1> QED BY <1>1, <1>2, <1>3, <1>6, <1>7

-----------------------------------------------------------------------------
(* What the steps do to the worker's record.                               *)

LEMMA WorkerKeeps ==
  ASSUME WorkerOK, NEW x, NEW y
  PROVE  /\ [worker EXCEPT !.pc = "taken", !.batch = x].batch = x
         /\ [worker EXCEPT !.pc = "replying", !.report = x].batch = worker.batch
         /\ [worker EXCEPT !.pc = "prewarming"].batch = worker.batch
         /\ [worker EXCEPT !.pc = "applying", !.next = x, !.at = y].batch = worker.batch
<1>1. worker = [f \in WorkerFields |-> worker[f]]
  BY DEF WorkerOK
<1>2. [worker EXCEPT !.pc = "taken", !.batch = x].batch = x
  BY <1>1 DEF WorkerFields
<1>3. [worker EXCEPT !.pc = "replying", !.report = x].batch = worker.batch
  BY <1>1 DEF WorkerFields
<1>4. [worker EXCEPT !.pc = "prewarming"].batch = worker.batch
  BY <1>1 DEF WorkerFields
<1>5. [worker EXCEPT !.pc = "applying", !.next = x, !.at = y].batch = worker.batch
  BY <1>1 DEF WorkerFields
<1> QED BY <1>2, <1>3, <1>4, <1>5

LEMMA LoopForgets ==
  ASSUME WorkerOK, NEW until, NEW snap
  PROVE  Loop(until, snap).batch = <<>> /\ Loop(until, snap).pc = "idle"
<1>1. worker = [x \in WorkerFields |-> worker[x]]
  BY DEF WorkerOK
<1>2. \A e : LET w == [worker EXCEPT !.pc = "idle", !.batch = <<>>, !.next = NoSnapshot,
                             !.at = 0, !.report = "none", !.until = until, !.event = e] IN
         w.batch = <<>> /\ w.pc = "idle"
  BY <1>1 DEF WorkerFields
<1> QED BY <1>2 DEF Loop

LEMMA InTheWordsOfJobs ==
  /\ Updates = UpdatesOf(worker.batch)
  /\ Replacing = ReplacingIn(worker.batch)
<1>1. Replacing = ReplacingIn(worker.batch)
  BY DEF Replacing, ReplacingIn
<1>2. Effective = EffectiveOf(worker.batch)
  BY <1>1 DEF Effective, EffectiveOf
<1> QED BY <1>1, <1>2 DEF Updates, UpdatesOf

-----------------------------------------------------------------------------
(* Each step keeps the invariant and is a step of the store.               *)

\* The jobs of the store: those the worker has yet to decide, then the queue.
Undecided == IF worker.pc = "replying" THEN <<>> ELSE worker.batch
StoreJobs == Undecided \o queue
Kept == JobsOK' /\ SwapOK'
Stutter ==
  /\ StoreJobs' = StoreJobs /\ live' = live /\ setup' = setup
  /\ now' = now \/ now' > now

\* Steps that decide about no job and accept none.
LEMMA RefQuiet ==
  ASSUME JobsOK, SwapOK, live' = live, queue' = queue, setup' = setup,
         now' \in 0..MaxTime, now <= now',
         \/ worker' = worker
         \/ worker.pc = "idle" /\ worker'.pc = "prewarming" /\ worker'.batch = worker.batch
         \/ /\ worker.pc \in {"off", "replying", "prewarming"}
            /\ worker'.pc = "idle" /\ worker'.batch = <<>>
  PROVE  Kept /\ Stutter
<1>a. /\ now \in Nat /\ now' \in Nat /\ now \in 0..MaxTime
      /\ now' = now \/ now' > now
      /\ \A t \in 0..now : t \in 0..now'
  BY ClockAssumption DEF JobsOK
<1>b. /\ Jobs(queue') /\ Since(queue') /\ AcceptedBy(queue', now')
      /\ Jobs(worker.batch) /\ Since(worker.batch) /\ AcceptedBy(worker.batch, now')
  <2>1. Since(queue) /\ AcceptedBy(queue, now) /\ Since(worker.batch) /\ AcceptedBy(worker.batch, now)
    BY DEF JobsOK
  <2>2. PICK q, b, m, n : q = queue /\ b = worker.batch /\ m = now /\ n = now'
    OBVIOUS
  <2>3. AcceptedBy(q, n) /\ AcceptedBy(b, n)
    BY <1>a, <2>1, <2>2, AcceptedLater
  <2> QED BY <2>1, <2>2, <2>3 DEF JobsOK
<1>1. CASE worker' = worker
  <2>1. JobsOK'
    BY <1>1, <1>b DEF JobsOK
  <2>2. Updates' = Updates /\ Replacing' = Replacing
    BY <1>1 DEF Updates, Replacing, Effective
  <2>3. SwapOK'
    <3>1. SUFFICES ASSUME worker.pc = "applying" PROVE SwapOK'
      BY <1>1 DEF SwapOK
    <3>2. /\ worker.at \in 0..now /\ AcceptedBy(worker.batch, worker.at)
          /\ AllValid(Updates, worker.at)
          /\ worker.next = [version |-> live.version + 1,
                            entries |->
                              NextEntries(worker.at, live.entries, Updates, Replacing # {})]
      BY <3>1 DEF SwapOK
    <3>3. worker.at \in 0..now'
      BY <1>a, <3>2
    <3> QED BY <1>1, <2>2, <3>2, <3>3 DEF SwapOK
  <2>4. Stutter
    BY <1>1, <1>a DEF Stutter, StoreJobs, Undecided
  <2> QED BY <2>1, <2>3, <2>4 DEF Kept
<1>2. CASE worker.pc = "idle" /\ worker'.pc = "prewarming" /\ worker'.batch = worker.batch
  <2>1. worker.batch = <<>>
    BY <1>2 DEF JobsOK
  <2>2. JobsOK'
    BY <1>2, <1>b, <2>1 DEF JobsOK
  <2>3. SwapOK'
    BY <1>2 DEF SwapOK
  <2>4. Stutter
    BY <1>2, <1>a DEF Stutter, StoreJobs, Undecided
  <2> QED BY <2>2, <2>3, <2>4 DEF Kept
<1>3. CASE /\ worker.pc \in {"off", "replying", "prewarming"}
           /\ worker'.pc = "idle" /\ worker'.batch = <<>>
  <2>1. Undecided = <<>> /\ Undecided' = <<>>
    BY <1>3 DEF JobsOK, Undecided
  <2>2. JobsOK'
    BY <1>3, <1>b, NoJobs DEF JobsOK
  <2>3. SwapOK'
    BY <1>3 DEF SwapOK
  <2>4. Stutter
    BY <2>1, <1>a DEF Stutter, StoreJobs
  <2> QED BY <2>2, <2>3, <2>4 DEF Kept
<1> QED BY <1>1, <1>2, <1>3

LEMMA UndecidedJobs ==
  ASSUME JobsOK
  PROVE  Jobs(Undecided) /\ Jobs(queue)
BY NoJobs DEF JobsOK, Undecided

\* A posted batch is accepted.
LEMMA RefPost ==
  ASSUME RefInv, NEW c \in Clients, NEW job, IsJob(job), NEW wait, Post(c, job, wait),
         setup' = setup
  PROVE  Kept /\ (Stutter \/ (Store!Accept(Store!Last(StoreJobs')) /\ StoreJobs' # <<>>))
<1>1. JobsOK /\ SwapOK /\ WorkerOK
  BY DEF RefInv, IInv
<1>2. now' = now /\ live' = live /\ now' \in 0..MaxTime /\ now \in Nat /\ now <= now'
  BY <1>1, ClockAssumption DEF Post, JobsOK
<1>3. CASE queue' = queue /\ worker' = worker
  BY <1>1, <1>2, <1>3, RefQuiet
<1>4. CASE ~(queue' = queue /\ worker' = worker)
  <2>1. PICK j : /\ j = [updates |-> job.updates, replace |-> job.replace, client |-> c,
                         since |-> now]
                 /\ queue' = Append(queue, j)
                 /\ \A u \in Range(job.updates) : Valid(u, now)
    BY <1>4 DEF Post
  <2>2. StartWorker
    BY <1>4 DEF Post
  <2>3. IsJob(j)
    BY <2>1 DEF IsJob
  <2>4. Jobs(queue') /\ Since(queue') /\ AcceptedBy(queue', now)
    <3>1. Jobs(queue) /\ Since(queue) /\ AcceptedBy(queue, now) /\ j.since = now
      BY <1>1, <2>1 DEF JobsOK
    <3>2. PICK q, t : q = queue /\ t = now /\ t \in Nat
      BY <1>2
    <3>3. Jobs(Append(q, j)) /\ Since(Append(q, j)) /\ AcceptedBy(Append(q, j), t)
      BY <2>3, <3>1, <3>2, JobsAppend
    <3> QED BY <2>1, <3>2, <3>3
  <2>5. /\ Undecided' = Undecided
        /\ \/ worker' = worker
           \/ worker.pc = "off" /\ worker'.pc = "idle" /\ worker'.batch = <<>>
    <3>1. CASE worker.pc = "off"
      <4>1. worker' = Loop(0, live)
        BY <2>2, <3>1 DEF StartWorker
      <4>2. PICK snap : snap = live
        OBVIOUS
      <4>3. worker'.pc = "idle" /\ worker'.batch = <<>>
        BY <1>1, <4>1, <4>2, LoopForgets
      <4>4. worker.batch = <<>>
        BY <1>1, <3>1 DEF JobsOK
      <4> QED BY <3>1, <4>3, <4>4 DEF Undecided
    <3>2. CASE worker.pc # "off"
      <4>1. worker' = worker
        BY <2>2, <3>2 DEF StartWorker
      <4> QED BY <4>1 DEF Undecided
    <3> QED BY <3>1, <3>2
  <2>6. JobsOK' /\ SwapOK'
    <3>1. CASE worker' = worker
      <4>1. JobsOK'
        BY <1>1, <1>2, <2>4, <3>1 DEF JobsOK
      <4>2. Updates' = Updates /\ Replacing' = Replacing
        BY <3>1 DEF Updates, Replacing, Effective
      <4>3. SwapOK'
        <5>1. SUFFICES ASSUME worker.pc = "applying" PROVE SwapOK'
          BY <3>1 DEF SwapOK
        <5>2. /\ worker.at \in 0..now /\ AcceptedBy(worker.batch, worker.at)
              /\ AllValid(Updates, worker.at)
              /\ worker.next = [version |-> live.version + 1,
                                entries |->
                                  NextEntries(worker.at, live.entries, Updates, Replacing # {})]
          BY <1>1, <5>1 DEF SwapOK
        <5> QED BY <1>2, <3>1, <4>2, <5>2 DEF SwapOK
      <4> QED BY <4>1, <4>3
    <3>2. CASE worker'.pc = "idle" /\ worker'.batch = <<>>
      BY <1>2, <2>4, <3>2, NoJobs DEF JobsOK, SwapOK
    <3> QED BY <2>5, <3>1, <3>2
  <2>7. PICK u : u = Undecided /\ Jobs(u)
    BY <1>1, UndecidedJobs
  <2>8. Jobs(queue)
    BY <1>1 DEF JobsOK
  <2>9. PICK q, J : q = queue /\ u \in Seq(J) /\ q \in Seq(J) /\ j \in J
    BY <2>7, <2>8, JobsTogether
  <2>10. /\ u \o Append(q, j) = Append(u \o q, j)
         /\ Append(u \o q, j) # <<>> /\ Last(Append(u \o q, j)) = j
    BY <2>9, ConcatAppend
  <2>11. StoreJobs = u \o q /\ StoreJobs' = Append(StoreJobs, j)
    BY <2>1, <2>5, <2>7, <2>9, <2>10 DEF StoreJobs
  <2>12. Store!Last(StoreJobs') = j /\ StoreJobs' # <<>>
    BY <2>10, <2>11 DEF Last, Store!Last
  <2>13. Store!Accept(j)
    <3>1. j.since = now /\ \A x \in Store!Range(j.updates) : Store!Valid(x, now)
      BY <2>1, SameWords, Zenon DEF Store!Range, Range
    <3>2. PICK t : t = now /\ j.since = t /\ \A x \in Store!Range(j.updates) : Store!Valid(x, t)
      BY <3>1
    <3> QED BY <1>2, <2>11, <3>2 DEF Store!Accept, StoreJobs, Undecided
  <2> QED BY <2>6, <2>12, <2>13 DEF Kept
<1> QED BY <1>3, <1>4

LEMMA RefTakeBatch ==
  ASSUME RefInv, TakeBatch, setup' = setup
  PROVE  Kept /\ Stutter
<1>1. JobsOK /\ WorkerOK
  BY DEF RefInv, IInv
<1>2. /\ worker.pc = "idle" /\ worker.batch = <<>> /\ queue # <<>> /\ queue' = <<>>
      /\ worker' = [worker EXCEPT !.pc = "taken", !.batch = queue]
      /\ now' = now /\ live' = live
  BY <1>1 DEF TakeBatch, JobsOK
<1>3. PICK q : q = queue
  OBVIOUS
<1>4. worker'.batch = q /\ worker'.pc = "taken"
  <2>1. Shaped(worker', "taken")
    BY <1>1, <1>2, <1>3, WorkerWith
  <2>2. worker'.batch = q
    BY <1>1, <1>2, <1>3, WorkerKeeps
  <2> QED BY <2>1, <2>2 DEF Shaped
<1>5. JobsOK'
  BY <1>1, <1>2, <1>3, <1>4, NoJobs DEF JobsOK
<1>6. SwapOK'
  BY <1>4 DEF SwapOK
<1>7. Stutter
  <2>1. Undecided = <<>> /\ Undecided' = q
    BY <1>2, <1>4 DEF Undecided
  <2>2. q \in Seq(Range(q))
    BY <1>1, <1>3 DEF JobsOK, Jobs
  <2>3. <<>> \o q = q /\ q \o <<>> = q
    BY <2>2, ConcatEmptySeq
  <2> QED BY <1>2, <1>3, <2>1, <2>3 DEF Stutter, StoreJobs
<1> QED BY <1>5, <1>6, <1>7 DEF Kept

\* The worker's jobs come first in the store.
LEMMA TakenAre ==
  ASSUME RefInv, worker.pc \in {"taken", "applying"}
  PROVE  /\ StoreJobs = worker.batch \o queue
         /\ Len(worker.batch) \in 1..Len(StoreJobs)
         /\ Store!Taken(Len(worker.batch)) = worker.batch
         /\ \A i \in 1..Len(worker.batch) : StoreJobs[i] = worker.batch[i]
         /\ SubSeq(StoreJobs, Len(worker.batch) + 1, Len(StoreJobs)) = queue
         /\ Jobs(worker.batch) /\ Len(worker.batch) > 0
<1>1. JobsOK /\ worker.batch # <<>> /\ worker.pc # "replying"
  BY DEF RefInv, JobsOK
<1>2. PICK b, q : b = worker.batch /\ q = queue /\ Jobs(b) /\ Jobs(q)
  BY <1>1 DEF JobsOK
<1>3. PICK J : b \in Seq(J) /\ q \in Seq(J)
  BY <1>2, JobsTogether
<1>4. /\ Len(b \o q) = Len(b) + Len(q) /\ Len(b) \in Nat /\ Len(q) \in Nat
      /\ \A i \in 1..Len(b) : (b \o q)[i] = b[i]
      /\ SubSeq(b \o q, 1, Len(b)) = b
      /\ SubSeq(b \o q, Len(b) + 1, Len(b \o q)) = q
  BY <1>3, ConcatParts
<1>5. Len(b) > 0
  BY <1>1, <1>2, <1>3, <1>4, EmptySeq
<1>6. StoreJobs = b \o q
  BY <1>1, <1>2 DEF StoreJobs, Undecided
<1>7. Store!Taken(Len(b)) = SubSeq(StoreJobs, 1, Len(b))
  BY DEF Store!Taken, StoreJobs, Undecided
<1>8. Len(b) \in 1..Len(b \o q)
  BY <1>4, <1>5
<1> QED BY <1>2, <1>4, <1>5, <1>6, <1>7, <1>8

\* The worker drops its jobs: they leave the store, the queue stays.
LEMMA RefDrop ==
  ASSUME RefInv, worker.pc \in {"taken", "applying"},
         worker'.pc = "replying", worker'.batch = worker.batch,
         queue' = queue, live' = live, now' = now, setup' = setup,
         \/ setup.failing # {}
         \/ ~AllValid(Updates, now)
  PROVE  Kept /\ Store!Drop(Len(worker.batch))
<1>1. JobsOK
  BY DEF RefInv
<1>2. Kept
  <2>1. JobsOK'
    BY <1>1 DEF JobsOK
  <2> QED BY <2>1 DEF Kept, SwapOK
<1>3. PICK n, b : n = Len(worker.batch) /\ b = worker.batch
  OBVIOUS
<1>4. /\ n \in 1..Len(StoreJobs) /\ \A i \in 1..n : StoreJobs[i] = b[i]
      /\ SubSeq(StoreJobs, n + 1, Len(StoreJobs)) = queue /\ Jobs(b) /\ Len(b) > 0
  BY <1>3, TakenAre
<1>5. StoreJobs' = SubSeq(StoreJobs, n + 1, Len(StoreJobs))
  <2>1. queue \in Seq(Range(queue))
    BY <1>1 DEF JobsOK, Jobs
  <2>2. PICK q : q = queue
    OBVIOUS
  <2>3. <<>> \o q = q
    BY <2>1, <2>2, ConcatEmptySeq
  <2> QED BY <1>4, <2>2, <2>3 DEF StoreJobs, Undecided
<1>6. \/ setup.failing # {}
      \/ \E i \in 1..n : /\ \A k \in (i + 1)..n : ~StoreJobs[k].replace
                         /\ \E u \in Store!Range(StoreJobs[i].updates) : ~Store!Valid(u, now)
  <2>1. CASE ~AllValid(Updates, now)
    <3>1. PICK u \in Range(UpdatesOf(b)) : ~Valid(u, now)
      BY <1>3, <2>1, InTheWordsOfJobs DEF AllValid
    <3>2. PICK i \in 1..Len(b) : /\ u \in Range(b[i].updates)
                                 /\ \A k \in (i + 1)..Len(b) : ~b[k].replace
      BY <1>4, UpdatesAre
    <3>3. ~Store!Valid(u, now)
      BY <3>1, SameWords
    <3>4. u \in Store!Range(b[i].updates)
      BY <3>2, Zenon DEF Store!Range, Range
    <3>5. i \in 1..n /\ StoreJobs[i] = b[i]
      BY <1>3, <1>4
    <3>6. Len(b) \in Nat
      BY <1>4, LenProperties DEF Jobs
    <3>7. \A k \in (i + 1)..n : k \in 1..n /\ k \in (i + 1)..Len(b)
      BY <1>3, <3>5, <3>6
    <3>8. \A k \in (i + 1)..n : ~StoreJobs[k].replace
      BY <1>4, <3>2, <3>7
    <3> QED BY <3>3, <3>4, <3>5, <3>8
  <2> QED BY <2>1
<1>7. Store!Drop(n)
  <2>1. PICK t, S : t = now /\ S = StoreJobs
    OBVIOUS
  <2>2. \/ setup.failing # {}
        \/ \E i \in 1..n : /\ \A k \in (i + 1)..n : ~S[k].replace
                           /\ \E u \in Store!Range(S[i].updates) : ~Store!Valid(u, t)
    BY <1>6, <2>1
  <2>3. /\ StoreJobs' = SubSeq(S, n + 1, Len(S)) /\ live' = live /\ now' = now
        /\ (setup.failing # {})' = (setup.failing # {})
    BY <1>5, <2>1
  <2> QED BY ONLY <2>1, <2>2, <2>3, Zenon DEF Store!Drop, Store!Counts, StoreJobs, Undecided
<1> QED BY <1>2, <1>3, <1>7

LEMMA RefBeginApply ==
  ASSUME RefInv, BeginApply, setup' = setup
  PROVE  Kept /\ (Stutter \/ Store!Drop(Len(worker.batch)))
<1>1. /\ JobsOK /\ WorkerOK /\ worker.pc = "taken" /\ now \in 0..MaxTime
      /\ now \in 0..now /\ AcceptedBy(worker.batch, now)
  BY ClockAssumption DEF RefInv, IInv, JobsOK, BeginApply
<1>2. live' = live /\ queue' = queue /\ now' = now
  BY DEF BeginApply
<1>3. CASE ~AllValid(Updates, now)
  <2>1. worker' = [worker EXCEPT !.pc = "replying", !.report = "failed"]
    BY <1>3 DEF BeginApply, AllValid
  <2>2. worker'.pc = "replying" /\ worker'.batch = worker.batch
    BY <1>1, <2>1, WorkerWith, WorkerKeeps DEF Shaped
  <2> QED BY <1>1, <1>2, <1>3, <2>2, RefDrop
<1>4. CASE AllValid(Updates, now)
  <2>1. PICK next, t : next = NextSnapshot /\ t = now
    OBVIOUS
  <2>2. worker' = [worker EXCEPT !.pc = "applying", !.next = next, !.at = t]
    BY <1>4, <2>1 DEF BeginApply, AllValid
  <2>3. /\ worker'.pc = "applying" /\ worker'.next = next /\ worker'.at = t
        /\ worker'.batch = worker.batch
    <3>1. Shaped(worker', "applying") /\ worker'.next = next /\ worker'.at = t
      BY <1>1, <2>2, WorkerWith
    <3>2. worker'.batch = worker.batch
      BY <1>1, <2>2, WorkerKeeps
    <3> QED BY <3>1, <3>2 DEF Shaped
  <2>4. JobsOK'
    BY <1>1, <1>2, <2>3 DEF JobsOK
  <2>5. Updates' = Updates /\ Replacing' = Replacing
    BY <2>3 DEF Updates, Replacing, Effective
  <2>6. SwapOK'
    <3>1. next = [version |-> live.version + 1,
                  entries |-> NextEntries(t, live.entries, Updates, Replacing # {})]
      BY <2>1 DEF NextSnapshot
    <3>2. t \in 0..now /\ AllValid(Updates, t) /\ AcceptedBy(worker.batch, t)
      BY <1>1, <1>4, <2>1
    <3> QED BY <1>2, <2>3, <2>5, <3>1, <3>2 DEF SwapOK
  <2>7. Stutter
    BY <1>1, <1>2, <2>3 DEF Stutter, StoreJobs, Undecided
  <2> QED BY <2>4, <2>6, <2>7 DEF Kept
<1> QED BY <1>3, <1>4

\* A swap that reaches its last router has passed them all.
LEMMA NoneBroken ==
  ASSUME IInv, Publish
  PROVE  setup.failing = {}
<1>1. /\ worker.pc = "applying" /\ Settled(Worker) /\ Succeeded(Worker)
      /\ call[Worker].router = Routers
  BY DEF Publish
<1>2. TypeOK /\ SlotInv /\ WarmSoFar /\ Worker \in Callers
  BY WorkerIsCaller DEF IInv
<1>3. Routers \notin setup.failing /\ Routers \in Nat /\ setup.failing \subseteq 1..Routers
  BY <1>1, <1>2, SettledTells, RoutersBound
<1>4. \A r \in 1..(Routers - 1) : r \notin setup.failing
  BY <1>1, <1>2 DEF WarmSoFar
<1>5. \A r \in 1..Routers : r = Routers \/ r \in 1..(Routers - 1)
  BY <1>3
<1> QED BY <1>3, <1>4, <1>5

\* Publication: all the worker's jobs take effect, one after the other.
LEMMA RefPublish ==
  ASSUME RefInv, Publish, setup' = setup
  PROVE  Kept /\ Store!Apply(Len(worker.batch), worker.at) /\ worker.at \in 0..now
<1>1. JobsOK /\ SwapOK /\ WorkerOK /\ worker.pc = "applying"
  BY DEF RefInv, IInv, Publish
<1>2. /\ live' = worker.next /\ queue' = queue /\ now' = now
      /\ worker' = [worker EXCEPT !.pc = "replying", !.report = "ok"]
  BY DEF Publish
<1>3. worker'.pc = "replying" /\ worker'.batch = worker.batch
  BY <1>1, <1>2, WorkerWith, WorkerKeeps DEF Shaped
<1>4. Kept
  <2>1. JobsOK'
    BY <1>1, <1>2, <1>3 DEF JobsOK
  <2>2. SwapOK'
    BY <1>3 DEF SwapOK
  <2> QED BY <2>1, <2>2 DEF Kept
<1>5. PICK at, b, es, n :
        /\ at = worker.at /\ b = worker.batch /\ es = live.entries /\ n = Len(worker.batch)
  OBVIOUS
<1>6. at \in 0..now /\ AllValid(UpdatesOf(b), at) /\ AcceptedBy(b, at)
  BY <1>1, <1>5, InTheWordsOfJobs DEF SwapOK
<1>7. live' = [version |-> live.version + 1,
               entries |-> NextEntries(at, es, UpdatesOf(b), ReplacingIn(b) # {})]
  BY <1>1, <1>2, <1>5, InTheWordsOfJobs DEF SwapOK
<1>8. /\ n \in 1..Len(StoreJobs) /\ Store!Taken(n) = b
      /\ SubSeq(StoreJobs, n + 1, Len(StoreJobs)) = queue /\ Jobs(b) /\ Len(b) > 0
  BY <1>1, <1>5, TakenAre
<1>9. at \in Nat /\ at <= now /\ now \in Nat
  BY <1>1, <1>6, ClockAssumption DEF JobsOK
<1>10. OneByOne(at, es, b) = NextEntries(at, es, UpdatesOf(b), ReplacingIn(b) # {})
  BY <1>6, <1>8, <1>9, CoalescedIsFold
<1>11. \A f \in DOMAIN live'.entries : live'.entries[f].until > at
  <2>1. WellFormed(UpdatesOf(b)) /\ \E E : UpdatesOf(b) \in Seq(E)
    BY <1>8, UpdatesAre
  <2>2. PICK us, r, E : us = UpdatesOf(b) /\ r = (ReplacingIn(b) # {}) /\ us \in Seq(E)
    BY <2>1
  <2>3. \A f \in DOMAIN NextEntries(at, es, us, r) : NextEntries(at, es, us, r)[f].until > at
    BY <1>6, <1>9, <2>1, <2>2, NextUnexpired
  <2>4. live'.entries = NextEntries(at, es, us, r)
    BY <1>7, <2>2
  <2> QED BY <2>3, <2>4
<1>12. StoreJobs' = queue
  <2>1. queue \in Seq(Range(queue))
    BY <1>1 DEF JobsOK, Jobs
  <2>2. PICK q : q = queue
    OBVIOUS
  <2>3. <<>> \o q = q
    BY <2>1, <2>2, ConcatEmptySeq
  <2> QED BY <1>2, <1>3, <2>2, <2>3 DEF StoreJobs, Undecided
<1>13. live'.version = live.version + 1 /\ live'.entries = OneByOne(at, es, b)
  BY <1>7, <1>10
<1>14. Store!Apply(n, at)
  <2>1. /\ StoreJobs' = SubSeq(StoreJobs, n + 1, Len(StoreJobs))
        /\ live'.entries = OneByOne(at, live.entries, Store!Taken(n))
    BY <1>5, <1>8, <1>12, <1>13
  <2>2. \A i \in 1..n : StoreJobs[i].since <= at
    <3>1. \A i \in 1..Len(b) : StoreJobs[i] = b[i]
      BY <1>1, <1>5, TakenAre
    <3>2. DOMAIN b = 1..Len(b)
      BY <1>8, LenProperties DEF Jobs
    <3> QED BY <1>5, <1>6, <3>1, <3>2 DEF AcceptedBy
  <2>3. ~(setup.failing # {}) /\ (setup.failing # {})' = (setup.failing # {})
    BY NoneBroken DEF RefInv
  <2> QED BY <1>2, <1>9, <1>11, <1>13, <2>1, <2>2, <2>3, Zenon
          DEF Store!Apply, OneByOne, StoreJobs, Undecided
<1> QED BY <1>4, <1>5, <1>6, <1>14

LEMMA RefAbandonApply ==
  ASSUME RefInv, AbandonApply, setup' = setup
  PROVE  Kept /\ Store!Drop(Len(worker.batch))
<1>1. /\ JobsOK /\ SwapOK /\ WorkerOK /\ TypeOK /\ SlotInv
      /\ worker.pc = "applying" /\ Worker \in Callers
  BY WorkerIsCaller DEF RefInv, IInv, AbandonApply
<1>2. /\ live' = live /\ queue' = queue /\ now' = now
      /\ Settled(Worker) /\ ~Succeeded(Worker)
      /\ worker' = [worker EXCEPT !.pc = "replying", !.report = "failed"]
  BY DEF AbandonApply
<1>3. worker'.pc = "replying" /\ worker'.batch = worker.batch
  BY <1>1, <1>2, WorkerWith, WorkerKeeps DEF Shaped
<1>4. setup.failing # {}
  BY <1>1, <1>2, SettledTells DEF TypeOK
<1> QED BY <1>1, <1>2, <1>3, <1>4, RefDrop

\* Every step keeps the invariant, and is a step of the store or none.
LEMMA RefNext ==
  ASSUME RefInv, [Next]_vars
  PROVE  Kept /\ (Store!StoreNext \/ Stutter)
<1>1. /\ JobsOK /\ SwapOK /\ WorkerOK /\ now \in 0..MaxTime /\ now \in Nat /\ now <= now
      /\ setup' = setup
  BY ClockAssumption DEF RefInv, IInv, JobsOK, Next, vars
<1>2. ASSUME NEW n \in 1..Len(StoreJobs),
             Store!Drop(n) \/ \E at \in 0..now : Store!Apply(n, at)
      PROVE  Store!StoreNext
  <2>1. n \in 1..Len(Undecided \o queue)
    BY DEF StoreJobs
  <2> QED BY <1>2, <2>1, Zenon DEF Store!StoreNext, Undecided
<1>3. ASSUME worker.pc \in {"taken", "applying"}
      PROVE  Len(worker.batch) \in 1..Len(StoreJobs)
  BY <1>3, TakenAre
<1>4. ASSUME worker' = worker, live' = live, queue' = queue, now' = now
      PROVE  Kept /\ Stutter
  BY <1>1, <1>4, RefQuiet
<1>5. CASE UNCHANGED vars
  BY <1>4, <1>5 DEF vars, moving
<1>6. CASE Next
  <2>1. ASSUME NEW c, CallStep(c)
        PROVE  Kept /\ Stutter
    <3>1. worker' = worker /\ live' = live /\ queue' = queue /\ now' = now
      BY <2>1 DEF CallStep, Lookup, BeginBuild, EndBuild
    <3> QED BY <1>4, <3>1
  <2>2. ASSUME NEW r \in Requests, RequestStep(r)
        PROVE  Kept /\ Stutter
    <3>1. CASE StartRequest(r)
      <4>1. StartWorker /\ live' = live /\ queue' = queue /\ now' = now
        BY <3>1 DEF StartRequest
      <4>2. CASE worker.pc = "off"
        <5>1. worker' = Loop(0, live)
          BY <4>1, <4>2 DEF StartWorker
        <5>2. PICK snap : snap = live
          OBVIOUS
        <5>3. worker'.pc = "idle" /\ worker'.batch = <<>>
          BY <1>1, <5>1, <5>2, LoopForgets
        <5> QED BY <1>1, <4>1, <4>2, <5>3, RefQuiet
      <4>3. CASE worker.pc # "off"
        BY <1>4, <4>1, <4>3 DEF StartWorker
      <4> QED BY <4>2, <4>3
    <3>2. CASE FinishRequest(r)
      BY <1>4, <3>2 DEF FinishRequest
    <3> QED BY <2>1, <2>2, <3>1, <3>2 DEF RequestStep
  <2>3. ASSUME NEW c \in Clients, NEW job \in setup.posts[c], Post(c, job, setup.wait)
        PROVE  Kept /\ (Store!StoreNext \/ Stutter)
    <3>1. IsJob(job)
      <4>1. setup \in Setups
        BY DEF RefInv, IInv, TypeOK
      <4>2. PICK s \in Setups : s = setup
        BY <4>1
      <4>3. /\ job.replace \in BOOLEAN /\ job.updates \in Seq(Range(job.updates))
            /\ \A u \in Range(job.updates) : IsUpdate(u)
        BY <4>2, PostsAssumption DEF IsUpdate
      <4>4. \A i \in DOMAIN job.updates : IsUpdate(job.updates[i])
        BY <4>3 DEF Range
      <4> QED BY <4>3, <4>4 DEF IsJob, WellFormed
    <3>2. PICK wait : wait = setup.wait
      OBVIOUS
    <3>3. Kept /\ (Stutter \/ (Store!Accept(Store!Last(StoreJobs')) /\ StoreJobs' # <<>>))
      BY <1>1, <2>3, <3>1, <3>2, RefPost
    <3>4. ASSUME Store!Accept(Store!Last(StoreJobs')), StoreJobs' # <<>>
          PROVE  Store!StoreNext
      BY <3>4, Zenon DEF Store!StoreNext, StoreJobs, Undecided
    <3> QED BY <3>3, <3>4
  <2>4. CASE Tick
    <3>1. worker' = worker /\ live' = live /\ queue' = queue /\ now' = now + 1 /\ now < MaxTime
      BY <2>4 DEF Tick
    <3>2. now' \in 0..MaxTime /\ now <= now'
      BY <1>1, <3>1, ClockAssumption
    <3> QED BY <1>1, <3>1, <3>2, RefQuiet
  <2>5. CASE Applying
    <3>1. CASE TakeBatch
      BY <1>1, <3>1, RefTakeBatch
    <3>2. CASE BeginApply
      BY <1>1, <1>2, <1>3, <3>2, RefBeginApply DEF BeginApply
    <3>3. CASE NextRouter
      BY <1>4, <3>3 DEF NextRouter
    <3>4. CASE Publish
      BY <1>1, <1>2, <1>3, <3>4, RefPublish DEF Publish
    <3>5. CASE AbandonApply
      BY <1>1, <1>2, <1>3, <3>5, RefAbandonApply DEF AbandonApply
    <3>6. CASE Reply \/ EndPrewarm
      <4>1. PICK until : worker' = Loop(until, live)
        BY <3>6 DEF Reply, EndPrewarm
      <4>2. PICK snap : snap = live
        OBVIOUS
      <4>3. worker'.pc = "idle" /\ worker'.batch = <<>>
        BY <1>1, <4>1, <4>2, LoopForgets
      <4>4. /\ worker.pc \in {"replying", "prewarming"}
            /\ live' = live /\ queue' = queue /\ now' = now
        BY <3>6 DEF Reply, EndPrewarm
      <4> QED BY <1>1, <4>3, <4>4, RefQuiet
    <3>7. CASE BeginPrewarm
      <4>1. /\ worker.pc = "idle" /\ live' = live /\ queue' = queue /\ now' = now
            /\ worker' = [worker EXCEPT !.pc = "prewarming"]
        BY <3>7 DEF BeginPrewarm
      <4>2. worker'.pc = "prewarming" /\ worker'.batch = worker.batch
        BY <1>1, <4>1, WorkerWith, WorkerKeeps DEF Shaped
      <4> QED BY <1>1, <4>1, <4>2, RefQuiet
    <3> QED BY <2>5, <3>1, <3>2, <3>3, <3>4, <3>5, <3>6, <3>7 DEF Applying
  <2> QED BY <1>6, <2>1, <2>2, <2>3, <2>4, <2>5 DEF Next
<1> QED BY <1>5, <1>6

-----------------------------------------------------------------------------
(* The theorem.                                                            *)

LEMMA RefInit ==
  ASSUME Init, IInv
  PROVE  RefInv /\ Store!StoreInit
<1>1. /\ now = 0 /\ live = NoSnapshot /\ queue = <<>>
      /\ worker = [pc |-> "off", batch |-> <<>>, next |-> NoSnapshot, at |-> 0,
                   event |-> 0, until |-> 0, report |-> "none"]
  BY DEF Init
<1>2. worker.pc = "off" /\ worker.batch = <<>>
  BY <1>1
<1>3. now \in 0..MaxTime
  BY <1>1, ClockAssumption
<1>4. RefInv
  BY <1>1, <1>2, <1>3, NoJobs DEF RefInv, JobsOK, SwapOK
<1>5. live.version = 0 /\ live.entries = Store!NoEntries
  BY <1>1, SameWords DEF NoSnapshot
<1>6. worker.batch \o queue = <<>>
  BY <1>1, <1>2
<1>7. Store!StoreInit
  BY <1>2, <1>5, <1>6 DEF Store!StoreInit
<1> QED BY <1>4, <1>7

\* The service implements the store: accepted batches take effect in the
\* order they were accepted, one after the other, though the worker coalesces
\* those it finds queued, builds engines in between and publishes them at
\* once; it drops a group of batches only when an update has expired by then
\* or engines cannot be built.
THEOREM InOrder == Spec => AppliesInOrder
<1>1. Init => RefInv /\ Store!StoreInit
  BY InitHolds, RefInit
<1>2. RefInv /\ [Next]_vars => RefInv' /\ [Store!StoreNext]_(Store!storeVars)
  <2> SUFFICES ASSUME RefInv, [Next]_vars
               PROVE  RefInv' /\ [Store!StoreNext]_(Store!storeVars)
    OBVIOUS
  <2>1. Kept /\ (Store!StoreNext \/ Stutter)
    BY RefNext
  <2>2. IInv'
    BY NextHolds DEF RefInv
  <2>3. Stutter => [Store!StoreNext]_(Store!storeVars)
    <3>1. CASE now' = now
      BY <3>1 DEF Stutter, StoreJobs, Undecided, Store!storeVars
    <3>2. CASE now' > now
      BY <3>2 DEF Stutter, StoreJobs, Undecided, Store!StoreNext, Store!Elapse
    <3> QED BY <3>1, <3>2 DEF Stutter
  <2> QED BY <2>1, <2>2, <2>3 DEF RefInv, Kept
<1> QED BY <1>1, <1>2, PTL DEF Spec, AppliesInOrder, Store!StoreSpec


=============================================================================
