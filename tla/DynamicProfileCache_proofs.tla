--------------------- MODULE DynamicProfileCache_proofs ---------------------
(***************************************************************************)
(* The safety properties of DynamicProfileCache, for any number of         *)
(* requests and documents and any capacity.  IInv is inductive; each group *)
(* of its conjuncts has a lemma saying that a step from IInv re-establishes *)
(* it.                                                                     *)
(***************************************************************************)
EXTENDS DynamicProfileCache, CollectionLemmas, TLAPS

Entry == [key: Keys \ Preloaded, engine: 1..Len(built)]

-----------------------------------------------------------------------------
(* What the LRU operators do to a sequence.                                *)

\* A touched entry moves to the back; the others keep their order.
LEMMA TouchProperties ==
  ASSUME NEW S, entries \in Seq(S), NEW k, Cached(k)
  PROVE  LET i == IndexOf(k) n == Len(entries) IN
         /\ i \in 1..n /\ entries[i].key = k
         /\ n \in Nat /\ DOMAIN entries = 1..n
         /\ Touch(k) \in Seq(S) /\ Len(Touch(k)) = n
         /\ DOMAIN Touch(k) = 1..n
         /\ Touch(k)[n] = entries[i]
         /\ \A j \in 1..(n - 1) :
              Touch(k)[j] = IF j < i THEN entries[j] ELSE entries[j + 1]
<1> DEFINE i == IndexOf(k)
           n == Len(entries)
           rest == RemoveAt(entries, i)
<1>1. n \in Nat /\ DOMAIN entries = 1..n
  BY LenProperties
<1>2. i \in 1..n /\ entries[i].key = k
  BY <1>1 DEF Cached, IndexOf
<1>3. entries[i] \in S
  BY <1>2, ElementOfSeq
<1>4. /\ rest \in Seq(S) /\ Len(rest) = n - 1
      /\ \A j \in 1..(n - 1) : rest[j] = IF j < i THEN entries[j] ELSE entries[j + 1]
  BY <1>2, RemoveAtProperties
<1>5. Touch(k) = Append(rest, entries[i])
  BY DEF Touch
<1>6. /\ Touch(k) \in Seq(S) /\ Len(Touch(k)) = Len(rest) + 1
      /\ \A j \in 1..Len(rest) : Touch(k)[j] = rest[j]
      /\ Touch(k)[Len(rest) + 1] = entries[i]
  BY <1>3, <1>4, <1>5, AppendProperties
<1>7. DOMAIN Touch(k) = 1..Len(Touch(k))
  BY <1>6, LenProperties
<1> HIDE DEF i, n, rest
<1>8. /\ Touch(k) \in Seq(S) /\ Len(Touch(k)) = n /\ DOMAIN Touch(k) = 1..n
      /\ Touch(k)[n] = entries[i]
      /\ \A j \in 1..(n - 1) :
           Touch(k)[j] = IF j < i THEN entries[j] ELSE entries[j + 1]
  BY <1>1, <1>2, <1>4, <1>6, <1>7
<1>. QED BY <1>1, <1>2, <1>8 DEF i, n

\* An inserted entry is last; a full cache lost its first one.
LEMMA InsertProperties ==
  ASSUME NEW S, entries \in Seq(S), Len(entries) <= Capacity,
         NEW k, NEW e, [key |-> k, engine |-> e] \in S
  PROVE  \E d \in {0, 1} : LET m == Len(Insert(k, e)) IN
         /\ Insert(k, e) \in Seq(S) /\ DOMAIN Insert(k, e) = 1..m
         /\ m \in 1..Capacity
         /\ m - 1 + d = Len(entries)
         /\ Insert(k, e)[m] = [key |-> k, engine |-> e]
         /\ \A j \in 1..(m - 1) : Insert(k, e)[j] = entries[j + d]
<1> DEFINE x == [key |-> k, engine |-> e]
           kept == IF Len(entries) = Capacity THEN Tail(entries) ELSE entries
           d == IF Len(entries) = Capacity THEN 1 ELSE 0
<1>1. Capacity \in Nat /\ Capacity > 0 /\ Len(entries) \in Nat
  BY CapacityAssumption, LenProperties
<1>2. /\ kept \in Seq(S) /\ Len(kept) = Len(entries) - d
      /\ \A j \in 1..Len(kept) : kept[j] = entries[j + d]
  <2>1. CASE Len(entries) = Capacity
    <3>1. entries # <<>>
      BY <1>1, <2>1, EmptySeq
    <3>. QED BY <3>1, <2>1, HeadTailProperties
  <2>2. CASE Len(entries) # Capacity
    <3>1. kept = entries /\ d = 0
      BY <2>2
    <3>. QED BY <3>1, <1>1, ElementOfSeq
  <2>. QED BY <2>1, <2>2
<1>3. Insert(k, e) = Append(kept, x)
  BY DEF Insert
<1>4. x \in S
  OBVIOUS
<1> HIDE DEF x, kept, d
<1>5. /\ Insert(k, e) \in Seq(S) /\ Len(Insert(k, e)) = Len(kept) + 1
      /\ \A j \in 1..Len(kept) : Insert(k, e)[j] = kept[j]
      /\ Insert(k, e)[Len(kept) + 1] = x
  BY <1>2, <1>3, <1>4, AppendProperties
<1>6. DOMAIN Insert(k, e) = 1..Len(Insert(k, e))
  BY <1>5, LenProperties
<1>7. d \in {0, 1} /\ Len(kept) \in Nat /\ Len(kept) + 1 \in 1..Capacity
  BY <1>1, <1>2, LenProperties DEF d
<1> DEFINE new == Insert(k, e)
<1>8. Len(new) \in 1..Capacity /\ Len(new) = Len(kept) + 1
      /\ Len(new) - 1 + d = Len(entries)
  <2>1. /\ Len(new) = Len(kept) + 1 /\ Len(kept) = Len(entries) - d
        /\ d \in {0, 1} /\ Len(entries) \in Nat
    BY <1>1, <1>2, <1>5, <1>7
  <2>. QED BY <1>7, <2>1
<1>9. new[Len(new)] = x
  BY <1>5, <1>8
<1>10. ASSUME NEW j \in 1..(Len(new) - 1) PROVE new[j] = entries[j + d]
  <2>1. j \in 1..Len(kept)
    BY <1>7, <1>8
  <2>. QED BY <1>2, <1>5, <2>1
<1>. QED BY <1>5, <1>6, <1>7, <1>8, <1>9, <1>10 DEF x

-----------------------------------------------------------------------------
(* Type correctness.                                                       *)

LEMMA InitType == Init => TypeOK
<1> SUFFICES ASSUME Init PROVE TypeOK
  OBVIOUS
<1>1. entries \in Seq(Entry) /\ slotQueue \in Seq(Keys) /\ built \in Seq(Keys)
  BY DEF Init
<1>. QED
  BY <1>1 DEF Init, TypeOK, Entry, TaskState, RequestState, Status, NoResult,
              NoAnswer, NoEngine

\* A build extends the history; what was an entry before remains one.
LEMMA CompiledEntries ==
  ASSUME TypeOK, CacheWellFormed, WaiterInv, NEW k \in Keys, Compiled(k)
  PROVE  /\ built' \in Seq(Keys) /\ Len(built') = Len(built) + 1
         /\ Len(built) \in Nat
         /\ \A e \in 1..Len(built) : built'[e] = built[e]
         /\ built'[Len(built) + 1] = k
         /\ Entry \subseteq Entry'
         /\ [key |-> k, engine |-> Len(built) + 1] \in Entry'
         /\ entries \in Seq(Entry') /\ entries' \in Seq(Entry')
<1>1. /\ built' \in Seq(Keys) /\ Len(built') = Len(built) + 1
      /\ \A e \in 1..Len(built) : built'[e] = built[e]
      /\ built'[Len(built) + 1] = k
  BY AppendProperties DEF TypeOK, Compiled
<1>2. Len(built) \in Nat
  BY LenProperties DEF TypeOK
<1>3. k \notin Preloaded
  <2>1. pending[k] # {}
    BY DEF WaiterInv, WaitersHaveTask, Compiled
  <2>2. PICK r \in pending[k] : TRUE
    BY <2>1
  <2>3. r \in Requests /\ want[r] = k /\ pc[r] \in {"waiting", "gone"}
    BY <2>2 DEF TypeOK, WaiterInv
  <2>. QED BY <2>3 DEF WaiterInv
<1>4. Entry \subseteq Entry' /\ [key |-> k, engine |-> Len(built) + 1] \in Entry'
  BY <1>1, <1>2, <1>3 DEF Entry
<1>5. entries \in Seq(Entry)
  BY DEF TypeOK, Entry
<1>6. entries \in Seq(Entry')
  BY <1>4, <1>5, SeqMonotonic
<1>7. Insert(k, Len(built) + 1) \in Seq(Entry')
  BY <1>4, <1>6, InsertProperties DEF CacheWellFormed
<1>8. entries' \in Seq(Entry')
  BY <1>7 DEF Compiled
<1>. QED BY <1>1, <1>2, <1>4, <1>6, <1>8

\* The permit queue loses its head.
LEMMA SlotQueueTail ==
  ASSUME TypeOK, NEW k \in Keys, HoldsSlot(k)
  PROVE  /\ Tail(slotQueue) \in Seq(Keys)
         /\ Len(slotQueue) \in Nat \ {0}
         /\ DOMAIN slotQueue = 1..Len(slotQueue)
         /\ DOMAIN Tail(slotQueue) = 1..(Len(slotQueue) - 1)
         /\ slotQueue[1] = k
         /\ \A i \in 1..(Len(slotQueue) - 1) : Tail(slotQueue)[i] = slotQueue[i + 1]
<1>1. slotQueue \in Seq(Keys) /\ slotQueue # <<>> /\ Head(slotQueue) = k
  BY DEF TypeOK, HoldsSlot
<1>2. Len(slotQueue) \in Nat \ {0} /\ DOMAIN slotQueue = 1..Len(slotQueue)
  BY <1>1, LenProperties, EmptySeq
<1>3. /\ Tail(slotQueue) \in Seq(Keys) /\ Len(Tail(slotQueue)) = Len(slotQueue) - 1
      /\ \A i \in 1..Len(Tail(slotQueue)) : Tail(slotQueue)[i] = slotQueue[i + 1]
  BY <1>1, HeadTailProperties
<1>4. DOMAIN Tail(slotQueue) = 1..Len(Tail(slotQueue))
  BY <1>3, LenProperties
<1>5. slotQueue[1] = k
  BY <1>1
<1>. QED BY <1>2, <1>3, <1>4, <1>5

LEMMA TypeStep == IInv /\ [Next]_vars => TypeOK'
<1> SUFFICES ASSUME IInv, [Next]_vars PROVE TypeOK'
  OBVIOUS
<1> USE DEF TaskState, RequestState, Status, NoEngine, NoResult
<1>1. TypeOK /\ CacheWellFormed /\ SlotInv /\ WaiterInv
  BY DEF IInv
<1>2. ASSUME NEW r \in Requests, ServePreloaded(r) PROVE TypeOK'
  BY <1>1, <1>2 DEF TypeOK, ServePreloaded, Reply, taskVars
<1>3. ASSUME NEW r \in Requests, ServeHit(r) PROVE TypeOK'
  <2>1. entries \in Seq(Entry) /\ want[r] \in Keys
    BY <1>1 DEF TypeOK, Entry
  <2>2. /\ entries' \in Seq(Entry) /\ IndexOf(want[r]) \in 1..Len(entries)
    BY <1>3, <2>1, TouchProperties DEF ServeHit
  <2>3. entries[IndexOf(want[r])].engine \in Nat
    <3>1. entries[IndexOf(want[r])] \in Entry
      BY <2>1, <2>2, ElementOfSeq
    <3>. QED BY <3>1 DEF Entry
  <2>. QED
    BY <1>1, <1>3, <2>2, <2>3 DEF TypeOK, Entry, ServeHit, Reply, taskVars
<1>4. ASSUME NEW r \in Requests, Miss(r) PROVE TypeOK'
  BY <1>1, <1>4 DEF TypeOK, Miss, taskVars
<1>5. ASSUME NEW r \in Requests, Join(r) PROVE TypeOK'
  BY <1>1, <1>5 DEF TypeOK, Join
<1>6. ASSUME NEW r \in Requests, Disconnect(r) PROVE TypeOK'
  BY <1>1, <1>6 DEF TypeOK, Disconnect, taskVars
<1>7. ASSUME NEW k \in Keys, QueueForSlot(k) PROVE TypeOK'
  <2>1. slotQueue' \in Seq(Keys)
    BY <1>1, <1>7, AppendProperties DEF TypeOK, QueueForSlot
  <2>. QED BY <1>1, <1>7, <2>1 DEF TypeOK, QueueForSlot, requestVars
<1>8. ASSUME NEW k \in Keys, RecheckHit(k) PROVE TypeOK'
  <2>1. entries \in Seq(Entry)
    BY <1>1 DEF TypeOK, Entry
  <2>2. entries' \in Seq(Entry) /\ IndexOf(k) \in 1..Len(entries)
    BY <1>8, <2>1, TouchProperties DEF RecheckHit
  <2>3. entries[IndexOf(k)].engine \in Nat
    <3>1. entries[IndexOf(k)] \in Entry
      BY <2>1, <2>2, ElementOfSeq
    <3>. QED BY <3>1 DEF Entry
  <2>4. slotQueue' \in Seq(Keys)
    BY <1>1, <1>8, SlotQueueTail DEF RecheckHit, Finish
  <2>. QED
    BY <1>1, <1>8, <2>2, <2>3, <2>4
    DEF TypeOK, Entry, RecheckHit, Finish, requestVars
<1>9. ASSUME NEW k \in Keys, RecheckMiss(k) PROVE TypeOK'
  BY <1>1, <1>9 DEF TypeOK, RecheckMiss, requestVars
<1>10. ASSUME NEW k \in Keys, Compiled(k) PROVE TypeOK'
  <2>1. built' \in Seq(Keys) /\ Len(built) \in Nat /\ entries' \in Seq(Entry')
    BY <1>1, <1>10, CompiledEntries
  <2>2. HoldsSlot(k)
    BY <1>1, <1>10 DEF SlotInv, Compiled
  <2>3. slotQueue' \in Seq(Keys)
    BY <1>1, <1>10, <2>2, SlotQueueTail DEF Compiled, Finish
  <2>. QED
    BY <1>1, <1>10, <2>1, <2>3 DEF TypeOK, Entry, Compiled, Finish, requestVars
<1>11. ASSUME NEW k \in Keys, CompileFailed(k) PROVE TypeOK'
  <2>1. HoldsSlot(k)
    BY <1>1, <1>11 DEF SlotInv, CompileFailed
  <2>2. slotQueue' \in Seq(Keys)
    BY <1>1, <1>11, <2>1, SlotQueueTail DEF CompileFailed, Finish
  <2>. QED BY <1>1, <1>11, <2>2 DEF TypeOK, CompileFailed, Finish, requestVars
<1>12. ASSUME NEW k \in Keys, Deliver(k) PROVE TypeOK'
  <2>1. result[k] \in [engine: Nat, compiled: BOOLEAN]
    BY <1>1 DEF TypeOK
  <2>2. \A r \in Requests : ReplyOf(r, result[k]) \in [engine: Nat, status: Status]
    BY <2>1 DEF ReplyOf
  <2>. QED BY <1>1, <1>12, <2>2 DEF TypeOK, Deliver
<1>13. CASE UNCHANGED vars
  BY <1>1, <1>13 DEF TypeOK, vars
<1>. QED
  BY <1>2, <1>3, <1>4, <1>5, <1>6, <1>7, <1>8, <1>9, <1>10, <1>11, <1>12, <1>13
  DEF Next, RequestStep, TaskStep

-----------------------------------------------------------------------------
(* The shape of the cache.                                                 *)

\* Which keys are cached after each way the cache changes.
LEMMA TouchKeys ==
  ASSUME TypeOK, CacheWellFormed, NEW k, Cached(k), entries' = Touch(k)
  PROVE  /\ CacheWellFormed'
         /\ \A other : Cached(other)' => Cached(other)
         /\ \A j \in DOMAIN entries' :
              \E i \in DOMAIN entries : entries'[j] = entries[i]
<1> DEFINE n == Len(entries)
           h == IndexOf(k)
           from(j) == IF j = n THEN h ELSE IF j < h THEN j ELSE j + 1
<1>1. entries \in Seq(Entry)
  BY DEF TypeOK, Entry
<1>2. /\ h \in 1..n /\ n \in Nat /\ DOMAIN entries = 1..n
      /\ DOMAIN entries' = 1..n /\ Len(entries') = n
      /\ entries'[n] = entries[h]
      /\ \A j \in 1..(n - 1) :
           entries'[j] = IF j < h THEN entries[j] ELSE entries[j + 1]
  BY <1>1, TouchProperties
<1> HIDE DEF n, h
<1>3. ASSUME NEW j \in 1..n PROVE from(j) \in 1..n /\ entries'[j] = entries[from(j)]
  <2>1. CASE j = n
    BY <1>2, <2>1
  <2>2. CASE j # n
    <3>1. j \in 1..(n - 1)
      BY <1>2, <2>2
    <3>2. CASE j < h
      BY <1>2, <2>2, <3>1, <3>2
    <3>3. CASE ~(j < h)
      BY <1>2, <2>2, <3>1, <3>3
    <3>. QED BY <3>2, <3>3
  <2>. QED BY <2>1, <2>2
<1>4. ASSUME NEW i \in 1..n, NEW j \in 1..n, from(i) = from(j) PROVE i = j
  BY <1>2, <1>4
<1> HIDE DEF from
<1>5. CacheWellFormed'
  <2>1. Len(entries') <= Capacity
    BY <1>2 DEF CacheWellFormed, n
  <2>2. ASSUME NEW i \in DOMAIN entries', NEW j \in DOMAIN entries',
               entries'[i].key = entries'[j].key
        PROVE  i = j
    <3>1. i \in 1..n /\ j \in 1..n
      BY <1>2, <2>2
    <3>2. /\ from(i) \in DOMAIN entries /\ entries'[i] = entries[from(i)]
          /\ from(j) \in DOMAIN entries /\ entries'[j] = entries[from(j)]
      BY <1>2, <1>3, <3>1
    <3>3. entries[from(i)].key = entries[from(j)].key
      BY <2>2, <3>2
    <3>4. from(i) = from(j)
      BY <3>2, <3>3 DEF CacheWellFormed
    <3>. QED BY <1>4, <3>1, <3>4
  <2>. QED BY <2>1, <2>2 DEF CacheWellFormed
<1>6. \A j \in DOMAIN entries' :
        \E i \in DOMAIN entries : entries'[j] = entries[i]
  BY <1>2, <1>3
<1>. QED BY <1>5, <1>6 DEF Cached

LEMMA InsertKeys ==
  ASSUME TypeOK, CacheWellFormed, NEW k \in Keys, ~Cached(k), NEW e, NEW S,
         entries \in Seq(S), [key |-> k, engine |-> e] \in S,
         entries' = Insert(k, e)
  PROVE  /\ CacheWellFormed'
         /\ \A other : Cached(other)' => other = k \/ Cached(other)
         /\ \A j \in DOMAIN entries' :
              \/ entries'[j] = [key |-> k, engine |-> e]
              \/ \E i \in DOMAIN entries : entries'[j] = entries[i]
<1> DEFINE m == Len(entries')
           x == [key |-> k, engine |-> e]
<1>1. Len(entries) <= Capacity
  BY DEF CacheWellFormed
<1>2. PICK d \in {0, 1} :
        /\ DOMAIN entries' = 1..m /\ m \in 1..Capacity
        /\ m - 1 + d = Len(entries)
        /\ entries'[m] = x
        /\ \A j \in 1..(m - 1) : entries'[j] = entries[j + d]
  <2> DEFINE new == Insert(k, e)
  <2>1. \E d \in {0, 1} :
          /\ DOMAIN new = 1..Len(new) /\ Len(new) \in 1..Capacity
          /\ Len(new) - 1 + d = Len(entries)
          /\ new[Len(new)] = x
          /\ \A j \in 1..(Len(new) - 1) : new[j] = entries[j + d]
    BY <1>1, InsertProperties
  <2>2. entries' = new
    OBVIOUS
  <2> HIDE DEF new, x
  <2>. QED BY <2>1, <2>2
<1>3. DOMAIN entries = 1..Len(entries) /\ Capacity \in Nat /\ m \in Nat
  BY <1>2, LenProperties, CapacityAssumption
<1> HIDE DEF m
<1>4. ASSUME NEW j \in 1..(m - 1)
      PROVE  j + d \in DOMAIN entries /\ entries'[j] = entries[j + d]
  <2>1. j + d \in 1..Len(entries)
    BY <1>2, <1>3
  <2>. QED BY <1>2, <1>3, <2>1
<1>5. \A j \in DOMAIN entries' :
        \/ j = m /\ entries'[j] = x
        \/ j \in 1..(m - 1)
  BY <1>2, <1>3
<1>6. \A j \in DOMAIN entries' :
        entries'[j] = x \/ \E i \in DOMAIN entries : entries'[j] = entries[i]
  BY <1>4, <1>5
<1>7. ASSUME NEW i \in DOMAIN entries', NEW j \in DOMAIN entries',
             entries'[i].key = entries'[j].key
      PROVE  i = j
  <2>1. x.key = k
    OBVIOUS
  <2>2. \A a \in 1..(m - 1) : entries'[a].key # k
    BY <1>4 DEF Cached
  <2>3. CASE i = m \/ j = m
    BY <1>2, <1>5, <1>7, <2>1, <2>2, <2>3
  <2>4. CASE i \in 1..(m - 1) /\ j \in 1..(m - 1)
    <3>1. i + d = j + d
      BY <1>4, <1>7, <2>4 DEF CacheWellFormed
    <3>. QED BY <1>3, <2>4, <3>1
  <2>. QED BY <1>2, <1>5, <2>3, <2>4
<1>8. m <= Capacity
  BY <1>2, <1>3
<1>9. CacheWellFormed'
  BY <1>7, <1>8 DEF CacheWellFormed, m
<1>10. ASSUME NEW other, Cached(other)' PROVE other = k \/ Cached(other)
  <2>1. PICK j \in DOMAIN entries' : entries'[j].key = other
    BY <1>10 DEF Cached
  <2>. QED BY <1>6, <2>1 DEF Cached
<1>. QED BY <1>6, <1>9, <1>10

\* The two facts every step needs about the cache: its shape is kept, and a
\* key becomes cached only when its own task inserts it.
LEMMA CacheStep ==
  ASSUME IInv, [Next]_vars
  PROVE  /\ CacheWellFormed'
         /\ \A k \in Keys : Cached(k)' => Cached(k) \/ Compiled(k)
<1> USE DEF IInv
<1>1. ASSUME UNCHANGED entries
      PROVE  CacheWellFormed' /\ \A k \in Keys : Cached(k)' => Cached(k)
  BY <1>1 DEF CacheWellFormed, Cached
<1>2. ASSUME NEW r \in Requests, ServeHit(r)
      PROVE  CacheWellFormed' /\ \A k \in Keys : Cached(k)' => Cached(k)
  BY <1>2, TouchKeys DEF ServeHit
<1>3. ASSUME NEW k \in Keys, RecheckHit(k)
      PROVE  CacheWellFormed' /\ \A kk \in Keys : Cached(kk)' => Cached(kk)
  BY <1>3, TouchKeys DEF RecheckHit
<1>4. ASSUME NEW k \in Keys, Compiled(k)
      PROVE  CacheWellFormed' /\ \A kk \in Keys : Cached(kk)' => Cached(kk) \/ kk = k
  <2>1. ~Cached(k)
    BY <1>4 DEF SlotInv, Compiled
  <2>2. /\ entries \in Seq(Entry')
        /\ [key |-> k, engine |-> Len(built) + 1] \in Entry'
    BY <1>4, CompiledEntries
  <2>3. entries' = Insert(k, Len(built) + 1)
    BY <1>4 DEF Compiled
  <2>. QED BY <2>1, <2>2, <2>3, InsertKeys
<1>5. \/ UNCHANGED entries
      \/ \E r \in Requests : ServeHit(r)
      \/ \E k \in Keys : RecheckHit(k)
      \/ \E k \in Keys : Compiled(k)
  BY DEF Next, RequestStep, TaskStep, ServePreloaded, Miss, Join, Disconnect,
         QueueForSlot, RecheckMiss, CompileFailed, Deliver, vars
<1>. QED BY <1>1, <1>2, <1>3, <1>4, <1>5

-----------------------------------------------------------------------------
(* The permit.                                                             *)

\* A step that neither queues nor releases keeps the queue invariant when no
\* task enters or leaves the permit's section.
LEMMA SlotKept ==
  ASSUME IInv, [Next]_vars, UNCHANGED slotQueue,
         \A k \in Keys : task'[k] = task[k]
                         \/ {task[k], task'[k]} \cap {"queued", "compiling"} = {}
  PROVE  SlotInv'
<1>1. \A k \in Keys : task'[k] = "compiling" => task[k] = "compiling"
  OBVIOUS
<1>2. \A k \in Keys : task'[k] = "compiling" => ~Compiled(k)
  BY DEF Compiled, Finish, IInv, TypeOK
<1>3. \A k \in Keys : task'[k] = "compiling" => HoldsSlot(k)' /\ ~Cached(k)'
  BY <1>1, <1>2, CacheStep DEF IInv, SlotInv, HoldsSlot
<1>4. \A k \in Keys : task'[k] \in {"queued", "compiling"}
                        <=> task[k] \in {"queued", "compiling"}
  OBVIOUS
<1>. QED BY <1>3, <1>4 DEF IInv, SlotInv

\* A release takes the head away and no other task was compiling.
LEMMA SlotReleased ==
  ASSUME IInv, NEW k \in Keys, HoldsSlot(k), task[k] \in {"queued", "compiling"},
         slotQueue' = Tail(slotQueue), task' = [task EXCEPT ![k] = "finished"]
  PROVE  SlotInv'
<1> DEFINE n == Len(slotQueue)
<1>1. /\ n \in Nat \ {0} /\ DOMAIN slotQueue = 1..n
      /\ DOMAIN slotQueue' = 1..(n - 1) /\ slotQueue[1] = k
      /\ \A i \in 1..(n - 1) : slotQueue'[i] = slotQueue[i + 1]
  BY SlotQueueTail DEF IInv
<1> HIDE DEF n
<1>2. \A i, j \in 1..n : slotQueue[i] = slotQueue[j] => i = j
  BY <1>1 DEF IInv, SlotInv
<1>3. ASSUME NEW i \in DOMAIN slotQueue', NEW j \in DOMAIN slotQueue',
             slotQueue'[i] = slotQueue'[j]
      PROVE  i = j
  BY <1>1, <1>2, <1>3
<1>4. ASSUME NEW other \in Keys
      PROVE  (\E i \in DOMAIN slotQueue' : slotQueue'[i] = other)
               <=> other # k /\ \E i \in DOMAIN slotQueue : slotQueue[i] = other
  <2>1. ASSUME NEW i \in 1..(n - 1), slotQueue'[i] = other
        PROVE  other # k /\ \E j \in DOMAIN slotQueue : slotQueue[j] = other
    <3>1. i + 1 \in 1..n /\ i + 1 # 1 /\ 1 \in 1..n
      BY <1>1
    <3>. QED BY <1>1, <1>2, <2>1, <3>1
  <2>2. ASSUME NEW i \in 1..n, slotQueue[i] = other, other # k
        PROVE  \E j \in DOMAIN slotQueue' : slotQueue'[j] = other
    <3>1. i - 1 \in 1..(n - 1) /\ (i - 1) + 1 = i
      BY <1>1, <2>2
    <3>. QED BY <1>1, <2>2, <3>1
  <2>. QED BY <1>1, <2>1, <2>2
<1>5. \A other \in Keys : other # k => task[other] # "compiling"
  BY DEF IInv, SlotInv, HoldsSlot
<1>6. task \in [Keys -> TaskState]
  BY DEF IInv, TypeOK
<1>7. \A other \in Keys : task'[other] # "compiling"
  BY <1>5, <1>6
<1>8. \A other \in Keys : task'[other] \in {"queued", "compiling"}
                            <=> other # k /\ task[other] \in {"queued", "compiling"}
  BY <1>6
<1>9. \A other \in Keys : task'[other] \in {"queued", "compiling"}
                            <=> \E i \in DOMAIN slotQueue' : slotQueue'[i] = other
  BY <1>4, <1>8 DEF IInv, SlotInv
<1>. QED BY <1>3, <1>7, <1>9 DEF SlotInv

LEMMA SlotStep == IInv /\ [Next]_vars => SlotInv'
<1> SUFFICES ASSUME IInv, [Next]_vars PROVE SlotInv'
  OBVIOUS
<1>0. task \in [Keys -> TaskState] /\ slotQueue \in Seq(Keys) /\ SlotInv
  BY DEF IInv, TypeOK
<1>1. ASSUME NEW r \in Requests, RequestStep(r) PROVE SlotInv'
  <2>1. UNCHANGED slotQueue
    BY <1>1 DEF RequestStep, ServePreloaded, ServeHit, Miss, Join, Disconnect, taskVars
  <2>2. ASSUME NEW k \in Keys, task'[k] # task[k]
        PROVE  task[k] = "none" /\ task'[k] = "spawned"
    BY <1>0, <1>1, <2>2
    DEF RequestStep, ServePreloaded, ServeHit, Miss, Join, Disconnect, taskVars,
        IInv, WaiterInv, WaitersHaveTask, TypeOK
  <2>3. \A k \in Keys : task'[k] = task[k]
                         \/ {task[k], task'[k]} \cap {"queued", "compiling"} = {}
    BY <2>2
  <2>. QED BY <2>1, <2>3, SlotKept
<1>2. ASSUME NEW k \in Keys, QueueForSlot(k) PROVE SlotInv'
  <2> DEFINE n == Len(slotQueue)
  <2>1. /\ n \in Nat /\ DOMAIN slotQueue = 1..n
        /\ slotQueue' \in Seq(Keys) /\ Len(slotQueue') = n + 1
        /\ \A i \in 1..n : slotQueue'[i] = slotQueue[i]
        /\ slotQueue'[n + 1] = k
    BY <1>0, <1>2, LenProperties, AppendProperties DEF QueueForSlot
  <2>2. DOMAIN slotQueue' = 1..(n + 1)
    BY <2>1, LenProperties
  <2>3. \A i \in 1..n : slotQueue[i] # k
    BY <1>0, <1>2, <2>1 DEF QueueForSlot, SlotInv
  <2> HIDE DEF n
  <2>4. \A i \in 1..(n + 1) : i \in 1..n \/ i = n + 1
    BY <2>1
  <2>5. \A i, j \in DOMAIN slotQueue' : slotQueue'[i] = slotQueue'[j] => i = j
    BY <1>0, <2>1, <2>2, <2>3, <2>4 DEF SlotInv
  <2>6. \A i \in 1..n : i \in 1..(n + 1)
    BY <2>1
  <2>7. n + 1 \in 1..(n + 1)
    BY <2>1
  <2>8. \A other \in Keys : (\E i \in DOMAIN slotQueue' : slotQueue'[i] = other)
           <=> other = k \/ \E i \in DOMAIN slotQueue : slotQueue[i] = other
    BY <2>1, <2>2, <2>4, <2>6, <2>7
  <2>9. \A other \in Keys : task'[other] = IF other = k THEN "queued" ELSE task[other]
    BY <1>0, <1>2 DEF QueueForSlot
  <2>10. \A other \in Keys : task'[other] \in {"queued", "compiling"}
            <=> \E i \in DOMAIN slotQueue' : slotQueue'[i] = other
    BY <1>0, <2>8, <2>9 DEF SlotInv
  <2>11. ASSUME NEW other \in Keys, task'[other] = "compiling"
         PROVE  HoldsSlot(other)' /\ ~Cached(other)'
    <3>1. task[other] = "compiling"
      BY <2>9, <2>11
    <3>2. HoldsSlot(other) /\ ~Cached(other)
      BY <1>0, <3>1 DEF SlotInv
    <3>3. Head(slotQueue') = Head(slotQueue) /\ slotQueue' # <<>>
      BY <1>0, <1>2, <3>2, HeadTailAppend, AppendProperties DEF QueueForSlot, HoldsSlot
    <3>. QED BY <1>2, <3>2, <3>3 DEF HoldsSlot, QueueForSlot, Cached
  <2>. QED BY <2>5, <2>10, <2>11 DEF SlotInv
<1>3. ASSUME NEW k \in Keys, RecheckHit(k) PROVE SlotInv'
  BY <1>3, SlotReleased DEF RecheckHit, Finish
<1>4. ASSUME NEW k \in Keys, RecheckMiss(k) PROVE SlotInv'
  <2>1. \A other \in Keys : task'[other] = IF other = k THEN "compiling" ELSE task[other]
    BY <1>0, <1>4 DEF RecheckMiss
  <2>2. UNCHANGED <<slotQueue, entries>>
    BY <1>4 DEF RecheckMiss
  <2>. QED
    BY <1>0, <1>4, <2>1, <2>2 DEF SlotInv, RecheckMiss, HoldsSlot, Cached
<1>5. ASSUME NEW k \in Keys, Compiled(k) PROVE SlotInv'
  <2>1. HoldsSlot(k)
    BY <1>0, <1>5 DEF SlotInv, Compiled
  <2>. QED BY <1>5, <2>1, SlotReleased DEF Compiled, Finish
<1>6. ASSUME NEW k \in Keys, CompileFailed(k) PROVE SlotInv'
  <2>1. HoldsSlot(k)
    BY <1>0, <1>6 DEF SlotInv, CompileFailed
  <2>. QED BY <1>6, <2>1, SlotReleased DEF CompileFailed, Finish
<1>7. ASSUME NEW k \in Keys, Deliver(k) PROVE SlotInv'
  <2>1. UNCHANGED slotQueue
    BY <1>7 DEF Deliver
  <2>2. ASSUME NEW other \in Keys, task'[other] # task[other]
        PROVE  task[other] = "finished" /\ task'[other] = "none"
    BY <1>0, <1>7, <2>2 DEF Deliver
  <2>3. \A other \in Keys : task'[other] = task[other]
             \/ {task[other], task'[other]} \cap {"queued", "compiling"} = {}
    BY <2>2
  <2>. QED BY <2>1, <2>3, SlotKept
<1>8. CASE UNCHANGED vars
  BY <1>0, <1>8 DEF SlotInv, HoldsSlot, Cached, vars
<1>. QED
  BY <1>1, <1>2, <1>3, <1>4, <1>5, <1>6, <1>7, <1>8 DEF Next, TaskStep

-----------------------------------------------------------------------------
(* The waiters.                                                            *)

LEMMA WaiterStep == IInv /\ [Next]_vars => WaiterInv'
<1> SUFFICES ASSUME IInv, [Next]_vars PROVE WaiterInv'
  OBVIOUS
<1> USE DEF TaskState, RequestState
<1>1. TypeOK /\ WaiterInv /\ SlotInv
  BY DEF IInv
<1> USE DEF WaiterInv, WaitersHaveTask
<1>2. ASSUME NEW r \in Requests, ServePreloaded(r) \/ ServeHit(r) \/ Miss(r)
      PROVE  WaiterInv'
  <2>1. /\ UNCHANGED <<pending, task, want, leader>>
        /\ pc[r] = "new"
        /\ \/ pc' = [pc EXCEPT ![r] = "done"]
           \/ pc' = [pc EXCEPT ![r] = "missed"] /\ want[r] \notin Preloaded
    BY <1>2 DEF ServePreloaded, ServeHit, Miss, Reply, taskVars
  <2>2. \A s \in Requests : s # r => pc'[s] = pc[s]
    BY <1>1, <2>1 DEF TypeOK
  <2>3. \A k \in Keys : r \notin pending[k]
    BY <1>1, <2>1
  <2>4. \A s \in Requests : pc'[s] \in {"waiting", "gone"} => s # r /\ pc'[s] = pc[s]
    BY <1>1, <2>1, <2>2 DEF TypeOK
  <2>5. \A k \in Keys : \A s \in pending[k] : s \in Requests /\ s # r /\ pc'[s] = pc[s]
    BY <1>1, <2>2, <2>3 DEF TypeOK
  <2>6. \A s \in Requests :
          pc'[s] \in {"missed", "waiting", "gone"} => want[s] \notin Preloaded
    BY <1>1, <2>1, <2>2 DEF TypeOK
  <2>. QED BY <1>1, <2>1, <2>4, <2>5, <2>6
<1>3. ASSUME NEW r \in Requests, Join(r) PROVE WaiterInv'
  <2> DEFINE k == want[r]
  <2>1. k \in Keys /\ k \notin Preloaded /\ pc[r] = "missed"
    BY <1>1, <1>3 DEF TypeOK, Join
  <2>2. /\ pc' = [pc EXCEPT ![r] = "waiting"]
        /\ pending' = [pending EXCEPT ![k] = pending[k] \cup {r}]
        /\ leader' = [leader EXCEPT ![r] = pending[k] = {}]
        /\ task' = [task EXCEPT ![k] = IF pending[k] = {} THEN "spawned" ELSE task[k]]
        /\ want' = want
    BY <1>3 DEF Join
  <2>3. \A s \in Requests : s # r => pc'[s] = pc[s] /\ leader'[s] = leader[s]
    BY <1>1, <2>2 DEF TypeOK
  <2>4. pc'[r] = "waiting" /\ leader'[r] = (pending[k] = {})
    BY <1>1, <2>2 DEF TypeOK
  <2>5. \A kk \in Keys : pending'[kk] = IF kk = k THEN pending[k] \cup {r} ELSE pending[kk]
    BY <1>1, <2>1, <2>2 DEF TypeOK
  <2>6. \A kk \in Keys : r \notin pending[kk]
    BY <1>1, <2>1
  <2>7. WaitersHaveTask'
    <3>1. \A kk \in Keys : kk # k => task'[kk] = task[kk]
      BY <1>1, <2>1, <2>2 DEF TypeOK
    <3>2. task'[k] # "none"
      BY <1>1, <2>1, <2>2 DEF TypeOK
    <3>. QED BY <1>1, <2>5, <3>1, <3>2
  <2>8. \A s \in Requests : pc'[s] = "waiting" => s \in pending'[want'[s]]
    BY <1>1, <2>1, <2>2, <2>3, <2>4, <2>5 DEF TypeOK
  <2>9. \A kk \in Keys : \A s \in pending'[kk] :
          want'[s] = kk /\ pc'[s] \in {"waiting", "gone"}
    BY <1>1, <2>1, <2>2, <2>3, <2>4, <2>5 DEF TypeOK
  <2>10. \A kk \in Keys : \A s, t \in pending'[kk] :
           leader'[s] /\ leader'[t] => s = t
    <3>1. SUFFICES ASSUME NEW kk \in Keys, NEW s \in pending'[kk],
                          NEW t \in pending'[kk], leader'[s], leader'[t]
                   PROVE  s = t
      OBVIOUS
    <3>2. /\ s \in Requests /\ t \in Requests
          /\ s = r \/ s \in pending[kk]
          /\ t = r \/ t \in pending[kk]
          /\ s = r \/ t = r => kk = k \/ (s = r /\ t = r)
      BY <1>1, <2>1, <2>5, <2>6 DEF TypeOK
    <3>3. CASE s # r /\ t # r
      <4>1. s \in pending[kk] /\ t \in pending[kk]
        BY <3>2, <3>3
      <4>2. leader[s] /\ leader[t]
        BY <2>3, <3>1, <3>2, <3>3
      <4>. QED BY <1>1, <4>1, <4>2
    <3>4. ASSUME pending[k] = {}, s = r \/ t = r PROVE s = t
      BY <2>1, <2>5, <3>2, <3>4
    <3>5. ASSUME s = r \/ t = r PROVE pending[k] = {}
      <4>1. leader'[r]
        BY <3>1, <3>5
      <4>2. leader'[r] = (pending[k] = {})
        BY <2>4
      <4>. QED BY <4>1, <4>2, Zenon
    <3>. QED BY <3>3, <3>4, <3>5
  <2>11. \A s \in Requests :
           pc'[s] \in {"missed", "waiting", "gone"} => want'[s] \notin Preloaded
    BY <1>1, <2>1, <2>2, <2>3
  <2>. QED BY <2>7, <2>8, <2>9, <2>10, <2>11
<1>4. ASSUME NEW r \in Requests, Disconnect(r) PROVE WaiterInv'
  <2>1. /\ UNCHANGED <<pending, task, want, leader>>
        /\ pc[r] = "waiting" /\ pc' = [pc EXCEPT ![r] = "gone"]
    BY <1>4 DEF Disconnect, taskVars
  <2>2. \A s \in Requests : s # r => pc'[s] = pc[s]
    BY <1>1, <2>1 DEF TypeOK
  <2>. QED BY <1>1, <2>1, <2>2 DEF TypeOK
<1>5. ASSUME NEW k \in Keys,
             \/ QueueForSlot(k) \/ RecheckHit(k) \/ RecheckMiss(k)
             \/ Compiled(k) \/ CompileFailed(k)
      PROVE  WaiterInv'
  <2>1. /\ UNCHANGED <<pending, pc, want, leader>>
        /\ task[k] # "none"
        /\ \E state \in TaskState \ {"none"} : task' = [task EXCEPT ![k] = state]
    BY <1>5 DEF QueueForSlot, RecheckHit, RecheckMiss, Compiled, CompileFailed,
                Finish, requestVars
  <2>2. \A kk \in Keys : task'[kk] # "none" <=> task[kk] # "none"
    BY <1>1, <2>1 DEF TypeOK
  <2>. QED BY <1>1, <2>1, <2>2
<1>6. ASSUME NEW k \in Keys, Deliver(k) PROVE WaiterInv'
  <2>1. /\ task' = [task EXCEPT ![k] = "none"]
        /\ pending' = [pending EXCEPT ![k] = {}]
        /\ pc' = [r \in Requests |->
                    IF r \in {s \in pending[k] : pc[s] = "waiting"}
                    THEN "done" ELSE pc[r]]
        /\ UNCHANGED <<want, leader>>
    BY <1>6 DEF Deliver
  <2>2. \A r \in Requests : /\ r \in pending[k] => pc'[r] \in {"done", "gone"}
                            /\ r \notin pending[k] => pc'[r] = pc[r]
    BY <1>1, <2>1
  <2>3. \A kk \in Keys : /\ kk # k => task'[kk] = task[kk] /\ pending'[kk] = pending[kk]
                         /\ kk = k => task'[kk] = "none" /\ pending'[kk] = {}
    BY <1>1, <2>1 DEF TypeOK
  <2>4. \A kk \in Keys : kk # k => pending[kk] \cap pending[k] = {}
    BY <1>1
  <2>5. \A kk \in Keys : pending[kk] \subseteq Requests
    BY <1>1 DEF TypeOK
  <2>6. \A r \in Requests : pc'[r] = pc[r] \/ pc'[r] = "done"
    BY <2>1
  <2>7. WaitersHaveTask'
    BY <1>1, <2>3
  <2>8. \A s \in Requests : pc'[s] = "waiting" => s \in pending'[want'[s]]
    <3>1. \A s \in Requests : want[s] \in Keys
      BY <1>1 DEF TypeOK
    <3>2. \A s \in Requests : pc'[s] = "waiting" => s \notin pending[k] /\ pc[s] = "waiting"
      BY <2>2, <2>6
    <3>. QED BY <1>1, <2>1, <2>3, <3>1, <3>2
  <2>9. \A kk \in Keys : \A s \in pending'[kk] :
          want'[s] = kk /\ pc'[s] \in {"waiting", "gone"}
    BY <1>1, <2>1, <2>2, <2>3, <2>4, <2>5
  <2>10. \A kk \in Keys : \A s, t \in pending'[kk] :
           leader'[s] /\ leader'[t] => s = t
    BY <1>1, <2>1, <2>3
  <2>11. \A s \in Requests :
           pc'[s] \in {"missed", "waiting", "gone"} => want'[s] \notin Preloaded
    BY <1>1, <2>1, <2>6
  <2>. QED BY <2>7, <2>8, <2>9, <2>10, <2>11
<1>7. CASE UNCHANGED vars
  BY <1>1, <1>7 DEF vars
<1>. QED
  BY <1>2, <1>3, <1>4, <1>5, <1>6, <1>7 DEF Next, RequestStep, TaskStep

-----------------------------------------------------------------------------
(* The engines.                                                            *)

\* Builds are only added: what belonged to a key still does.
LEMMA BuiltGrows ==
  ASSUME IInv, [Next]_vars
  PROVE  \A e, k : EngineOf(built, e, k) => EngineOf(built', e, k)
<1>1. CASE built' = built
  BY <1>1
<1>2. CASE built' # built
  <2>1. PICK k \in Keys : Compiled(k)
    BY <1>2 DEF Next, RequestStep, TaskStep, ServePreloaded, ServeHit, Miss, Join,
         Disconnect, QueueForSlot, RecheckHit, RecheckMiss, CompileFailed, Deliver,
         taskVars, vars
  <2>2. /\ Len(built') = Len(built) + 1 /\ Len(built) \in Nat
        /\ \A e \in 1..Len(built) : built'[e] = built[e]
    BY <2>1, CompiledEntries DEF IInv
  <2>3. ASSUME NEW e \in 1..Len(built) PROVE e \in 1..Len(built')
    BY <2>2
  <2>. QED BY <2>2, <2>3 DEF EngineOf
<1>. QED BY <1>1, <1>2

\* The engine of a cache entry belongs to the key of that entry.
LEMMA EntryEngine ==
  ASSUME IInv, NEW i \in DOMAIN entries
  PROVE  EngineOf(built, entries[i].engine, entries[i].key)
<1>1. entries \in Seq(Entry)
  BY DEF IInv, TypeOK, Entry
<1>2. entries[i] \in Entry
  BY <1>1, LenProperties, ElementOfSeq
<1>. QED BY <1>2 DEF EngineOf, Entry, IInv, EngineInv

LEMMA CachedEngine ==
  ASSUME IInv, NEW k, Cached(k)
  PROVE  EngineOf(built, entries[IndexOf(k)].engine, k)
<1>1. IndexOf(k) \in DOMAIN entries /\ entries[IndexOf(k)].key = k
  BY DEF Cached, IndexOf
<1>. QED BY <1>1, EntryEngine

\* A result either stays, is reset, or is an engine of the task's own key.
LEMMA ResultStep ==
  ASSUME IInv, [Next]_vars, NEW k \in Keys
  PROVE  /\ result'[k].engine # NoEngine => EngineOf(built', result'[k].engine, k)
         /\ task'[k] # "finished" => result'[k] = NoResult
<1> DEFINE Goal == /\ result'[k].engine # NoEngine
                        => EngineOf(built', result'[k].engine, k)
                   /\ task'[k] # "finished" => result'[k] = NoResult
<1>0. /\ TypeOK /\ WaiterInv
      /\ result[k].engine # NoEngine => EngineOf(built, result[k].engine, k)
      /\ task[k] # "finished" => result[k] = NoResult
      /\ \A e : EngineOf(built, e, k) => EngineOf(built', e, k)
  BY BuiltGrows DEF IInv, EngineInv
<1>1. ASSUME result' = result, task' = task PROVE Goal
  BY <1>0, <1>1
<1>2. ASSUME NEW r \in Requests, Join(r) PROVE Goal
  <2>1. result' = result
    BY <1>2 DEF Join
  <2>2. task[k] = "finished" => task'[k] = "finished"
    <3>1. task \in [Keys -> TaskState]
      BY <1>0 DEF TypeOK
    <3>2. CASE want[r] # k
      BY <1>2, <3>1, <3>2 DEF Join
    <3>3. CASE want[r] = k
      <4>1. task[k] = "finished" => pending[k] # {}
        BY <1>0 DEF WaiterInv, WaitersHaveTask
      <4> QED BY <1>2, <3>1, <3>3, <4>1 DEF Join
    <3>. QED BY <3>2, <3>3
  <2>. QED BY <1>0, <2>1, <2>2
<1>3. ASSUME NEW kk \in Keys, QueueForSlot(kk) \/ RecheckMiss(kk) PROVE Goal
  <2>1. result' = result /\ task[kk] # "finished"
    BY <1>3 DEF QueueForSlot, RecheckMiss
  <2>2. kk # k => task'[k] = task[k]
    BY <1>0, <1>3 DEF TypeOK, QueueForSlot, RecheckMiss
  <2>. QED BY <1>0, <2>1, <2>2
<1>4. ASSUME NEW kk \in Keys, NEW e, NEW c, Finish(kk, e, c),
             e = NoEngine \/ EngineOf(built', e, kk)
      PROVE  Goal
  <2>1. /\ k = kk => /\ task'[k] = "finished"
                     /\ result'[k] = [engine |-> e, compiled |-> c]
        /\ k # kk => task'[k] = task[k] /\ result'[k] = result[k]
    BY <1>0, <1>4 DEF TypeOK, Finish
  <2>. QED BY <1>0, <1>4, <2>1
<1>5. ASSUME NEW kk \in Keys, RecheckHit(kk) PROVE Goal
  <2> DEFINE e == entries[IndexOf(kk)].engine
  <2>1. EngineOf(built', e, kk)
    BY <1>5, CachedEngine, BuiltGrows DEF RecheckHit
  <2>2. Finish(kk, e, FALSE)
    BY <1>5 DEF RecheckHit
  <2> HIDE DEF e, Goal
  <2>. QED BY <1>4, <2>1, <2>2
<1>6. ASSUME NEW kk \in Keys, Compiled(kk) PROVE Goal
  <2>1. /\ Len(built') = Len(built) + 1 /\ Len(built) \in Nat
        /\ built'[Len(built) + 1] = kk
    BY <1>6, CompiledEntries DEF IInv
  <2>2. EngineOf(built', Len(built) + 1, kk)
    BY <2>1 DEF EngineOf
  <2>3. Finish(kk, Len(built) + 1, TRUE)
    BY <1>6 DEF Compiled
  <2> HIDE DEF Goal
  <2>. QED BY <1>4, <2>2, <2>3
<1>7. ASSUME NEW kk \in Keys, CompileFailed(kk) PROVE Goal
  <2>1. Finish(kk, NoEngine, FALSE)
    BY <1>7 DEF CompileFailed
  <2> HIDE DEF Goal
  <2>. QED BY <1>4, <2>1
<1>8. ASSUME NEW kk \in Keys, Deliver(kk) PROVE Goal
  <2>1. /\ k = kk => result'[k] = NoResult
        /\ k # kk => task'[k] = task[k] /\ result'[k] = result[k]
    BY <1>0, <1>8 DEF TypeOK, Deliver
  <2>. QED BY <1>0, <2>1 DEF NoResult
<1>9. \/ result' = result /\ task' = task
      \/ \E r \in Requests : Join(r)
      \/ \E kk \in Keys : TaskStep(kk)
  BY DEF Next, RequestStep, ServePreloaded, ServeHit, Miss, Disconnect,
         taskVars, vars
<1> HIDE DEF Goal
<1>10. Goal
  BY <1>1, <1>2, <1>3, <1>5, <1>6, <1>7, <1>8, <1>9 DEF TaskStep
<1>. QED BY <1>10 DEF Goal

\* An answered request got the engine of its own key.
LEMMA AnswerStep == IInv /\ [Next]_vars => AnswersOwnProfile'
<1> SUFFICES ASSUME IInv, [Next]_vars, NEW r \in Requests,
                    answer'[r].status \in {"hit", "miss"}
             PROVE  EngineOf(built', answer'[r].engine, want'[r])
  BY DEF AnswersOwnProfile, EngineOf
<1>0. /\ TypeOK /\ WaiterInv
      /\ answer[r].status \in {"hit", "miss"}
           => EngineOf(built, answer[r].engine, want[r])
      /\ \A e, k : EngineOf(built, e, k) => EngineOf(built', e, k)
      /\ want' = want
  <2>1. want' = want
    BY DEF Next, RequestStep, TaskStep, ServePreloaded, ServeHit, Miss, Join,
         Disconnect, QueueForSlot, RecheckHit, RecheckMiss, Compiled,
         CompileFailed, Deliver, requestVars, vars
  <2>. QED
    BY <2>1, BuiltGrows DEF IInv, EngineInv, AnswersOwnProfile, EngineOf
<1>1. CASE answer'[r] = answer[r]
  BY <1>0, <1>1
<1>2. ASSUME NEW s \in Requests, ServePreloaded(s), s = r
      PROVE  EngineOf(built', answer'[r].engine, want'[r])
  BY <1>0, <1>2 DEF TypeOK, ServePreloaded, Reply
<1>3. ASSUME NEW s \in Requests, ServeHit(s), s = r
      PROVE  EngineOf(built', answer'[r].engine, want'[r])
  <2> DEFINE e == entries[IndexOf(want[r])].engine
  <2>1. EngineOf(built', e, want[r])
    BY <1>3, CachedEngine, BuiltGrows DEF ServeHit
  <2>2. answer'[r] = [engine |-> e, status |-> "hit"]
    BY <1>0, <1>3 DEF TypeOK, ServeHit, Reply
  <2> HIDE DEF e
  <2>. QED BY <1>0, <2>1, <2>2
<1>4. ASSUME NEW k \in Keys, Deliver(k), answer'[r] # answer[r]
      PROVE  EngineOf(built', answer'[r].engine, want'[r])
  <2>1. r \in pending[k] /\ answer'[r] = ReplyOf(r, result[k]) /\ built' = built
    BY <1>4 DEF Deliver
  <2>2. want[r] = k
    BY <1>0, <2>1 DEF WaiterInv
  <2>3. result[k].engine # NoEngine
    BY <2>1 DEF ReplyOf
  <2>4. EngineOf(built, result[k].engine, k)
    BY <2>3 DEF IInv, EngineInv
  <2>5. answer'[r].engine = result[k].engine
    BY <2>1 DEF ReplyOf
  <2>. QED BY <1>0, <2>1, <2>2, <2>4, <2>5
<1>5. \/ answer'[r] = answer[r]
      \/ \E s \in Requests : (ServePreloaded(s) \/ ServeHit(s)) /\ s = r
      \/ \E k \in Keys : Deliver(k)
  <2>1. ASSUME NEW s \in Requests, ServePreloaded(s) \/ ServeHit(s), s # r
        PROVE  answer'[r] = answer[r]
    BY <1>0, <2>1 DEF TypeOK, ServePreloaded, ServeHit, Reply
  <2>2. \/ answer' = answer
        \/ \E s \in Requests : ServePreloaded(s) \/ ServeHit(s)
        \/ \E k \in Keys : Deliver(k)
    BY DEF Next, RequestStep, TaskStep, Miss, Join, Disconnect, QueueForSlot,
           RecheckHit, RecheckMiss, Compiled, CompileFailed, requestVars, vars
  <2>. QED BY <2>1, <2>2
<1>. QED BY <1>1, <1>2, <1>3, <1>4, <1>5

LEMMA EngineStep == IInv /\ [Next]_vars => EngineInv'
<1> SUFFICES ASSUME IInv, [Next]_vars PROVE EngineInv'
  OBVIOUS
<1>1. ASSUME NEW j \in DOMAIN entries'
      PROVE  built'[entries'[j].engine] = entries'[j].key
  <2>1. ASSUME NEW i \in DOMAIN entries, entries'[j] = entries[i]
        PROVE  built'[entries'[j].engine] = entries'[j].key
    BY <2>1, EntryEngine, BuiltGrows DEF EngineOf
  <2>2. ASSUME NEW k \in Keys, Compiled(k)
        PROVE  built'[entries'[j].engine] = entries'[j].key
    <3>1. /\ entries \in Seq(Entry')
          /\ [key |-> k, engine |-> Len(built) + 1] \in Entry'
          /\ built'[Len(built) + 1] = k
      BY <2>2, CompiledEntries DEF IInv
    <3>2. entries' = Insert(k, Len(built) + 1) /\ ~Cached(k)
      BY <2>2 DEF Compiled, IInv, SlotInv
    <3>3. \/ entries'[j] = [key |-> k, engine |-> Len(built) + 1]
          \/ \E i \in DOMAIN entries : entries'[j] = entries[i]
      BY <3>1, <3>2, InsertKeys DEF IInv
    <3>. QED BY <2>1, <3>1, <3>3
  <2>3. ASSUME NEW k, Cached(k), entries' = Touch(k)
        PROVE  built'[entries'[j].engine] = entries'[j].key
    <3>1. \E i \in DOMAIN entries : entries'[j] = entries[i]
      BY <2>3, TouchKeys DEF IInv
    <3>. QED BY <2>1, <3>1
  <2>4. \/ UNCHANGED entries
        \/ \E k : Cached(k) /\ entries' = Touch(k)
        \/ \E k \in Keys : Compiled(k)
    BY DEF Next, RequestStep, TaskStep, ServePreloaded, ServeHit, Miss, Join,
         Disconnect, QueueForSlot, RecheckHit, RecheckMiss, CompileFailed, Deliver, vars
  <2>. QED BY <2>1, <2>2, <2>3, <2>4
<1>2. \A k \in Keys :
        /\ result'[k].engine # NoEngine => EngineOf(built', result'[k].engine, k)
        /\ task'[k] # "finished" => result'[k] = NoResult
  BY ResultStep
<1>3. AnswersOwnProfile'
  BY AnswerStep
<1>. QED BY <1>1, <1>2, <1>3 DEF EngineInv

-----------------------------------------------------------------------------
(* The reported misses.                                                    *)

LEMMA MissStep == IInv /\ [Next]_vars => MissInv'
<1> SUFFICES ASSUME IInv, [Next]_vars PROVE MissInv'
  OBVIOUS
<1>0. TypeOK /\ WaiterInv /\ EngineInv /\ MissInv
  BY DEF IInv
<1> USE DEF MissInv, OneMissPerCompile
<1>1. ASSUME NEW r \in Requests, ServePreloaded(r) \/ ServeHit(r) PROVE MissInv'
  <2>1. /\ answer'[r].status # "miss"
        /\ \A s \in Requests : s # r => answer'[s] = answer[s]
        /\ result' = result
    BY <1>0, <1>1 DEF TypeOK, ServePreloaded, ServeHit, Reply, taskVars
  <2>. QED BY <1>0, <2>1
<1>2. CASE answer' = answer /\ result' = result
  BY <1>0, <1>2
\* A fresh engine has a number no answer carries yet.
<1>3. ASSUME NEW k \in Keys, Compiled(k) PROVE MissInv'
  <2>1. /\ answer' = answer
        /\ result' = [result EXCEPT ![k] = [engine |-> Len(built) + 1, compiled |-> TRUE]]
    BY <1>3 DEF Compiled, Finish, requestVars
  <2>2. Len(built) \in Nat
    BY <1>0, LenProperties DEF TypeOK
  <2>3. \A r \in Requests : answer[r].status = "miss" => answer[r].engine \in 1..Len(built)
    BY <1>0 DEF EngineInv, AnswersOwnProfile
  <2>4. \A r \in Requests : answer[r].status = "miss" => answer[r].engine # Len(built) + 1
    BY <2>2, <2>3
  <2>5. \A kk \in Keys : result'[kk] = IF kk = k
           THEN [engine |-> Len(built) + 1, compiled |-> TRUE] ELSE result[kk]
    BY <1>0, <2>1 DEF TypeOK
  <2>. QED BY <1>0, <2>1, <2>4, <2>5
<1>4. ASSUME NEW k \in Keys, NEW e, Finish(k, e, FALSE), answer' = answer
      PROVE  MissInv'
  <2>1. \A kk \in Keys : result'[kk] = IF kk = k
           THEN [engine |-> e, compiled |-> FALSE] ELSE result[kk]
    BY <1>0, <1>4 DEF TypeOK, Finish
  <2>. QED BY <1>0, <1>4, <2>1
<1>5. ASSUME NEW k \in Keys, RecheckHit(k) \/ CompileFailed(k) PROVE MissInv'
  <2>1. answer' = answer /\ \E e : Finish(k, e, FALSE)
    BY <1>5 DEF RecheckHit, CompileFailed, requestVars
  <2>. QED BY <1>4, <2>1
\* Only the key's single leader turns a compiled result into a miss.
<1>6. ASSUME NEW k \in Keys, Deliver(k) PROVE MissInv'
  <2> DEFINE served == {r \in pending[k] : pc[r] = "waiting"}
  <2>1. /\ \A r \in Requests : answer'[r] =
             IF r \in served THEN ReplyOf(r, result[k]) ELSE answer[r]
        /\ \A kk \in Keys : result'[kk] = IF kk = k THEN NoResult ELSE result[kk]
    BY <1>0, <1>6 DEF Deliver, TypeOK
  <2>2. \A r \in Requests : r \in served =>
          /\ answer'[r].engine = result[k].engine
          /\ answer'[r].status = "miss" => leader[r] /\ result[k].compiled
                                           /\ result[k].engine # NoEngine
    <3>1. SUFFICES ASSUME NEW r \in Requests, r \in served
                   PROVE  /\ answer'[r].engine = result[k].engine
                          /\ answer'[r].status = "miss"
                               => /\ leader[r] /\ result[k].compiled
                                  /\ result[k].engine # NoEngine
      OBVIOUS
    <3>2. answer'[r] = ReplyOf(r, result[k])
      BY <2>1, <3>1
    <3>3. CASE leader[r] /\ result[k].compiled
      BY <3>2, <3>3 DEF ReplyOf
    <3>4. CASE ~(leader[r] /\ result[k].compiled)
      BY <3>2, <3>4 DEF ReplyOf
    <3>. QED BY <3>3, <3>4
  <2>3. \A r, s \in served : leader[r] /\ leader[s] => r = s
    BY <1>0 DEF WaiterInv
  <2>4. OneMissPerCompile'
    <3>1. SUFFICES ASSUME NEW r \in Requests, NEW s \in Requests,
                          answer'[r].status = "miss", answer'[s].status = "miss",
                          answer'[r].engine = answer'[s].engine
                   PROVE  r = s
      OBVIOUS
    <3>2. CASE r \in served /\ s \in served
      BY <2>2, <2>3, <3>1, <3>2
    <3>3. CASE r \in served /\ s \notin served
      BY <1>0, <2>1, <2>2, <3>1, <3>3
    <3>4. CASE r \notin served /\ s \in served
      BY <1>0, <2>1, <2>2, <3>1, <3>4
    <3>5. CASE r \notin served /\ s \notin served
      BY <1>0, <2>1, <3>1, <3>5
    <3>. QED BY <3>2, <3>3, <3>4, <3>5
  <2>5. ASSUME NEW kk \in Keys, NEW r \in Requests,
               result'[kk].compiled, answer'[r].status = "miss"
        PROVE  answer'[r].engine # result'[kk].engine
    <3>1. kk # k /\ result'[kk] = result[kk]
      BY <2>1, <2>5 DEF NoResult
    <3>2. CASE r \notin served
      BY <1>0, <2>1, <2>5, <3>1, <3>2
    <3>3. CASE r \in served
      <4>1. answer'[r].engine = result[k].engine /\ result[k].engine # NoEngine
        BY <2>2, <2>5, <3>3
      <4>2. EngineOf(built, result[k].engine, k)
        BY <1>0, <4>1 DEF EngineInv
      <4>3. result[kk].engine = NoEngine \/ EngineOf(built, result[kk].engine, kk)
        BY <1>0 DEF EngineInv
      <4>. QED BY <3>1, <4>1, <4>2, <4>3 DEF EngineOf
    <3>. QED BY <3>2, <3>3
  <2>. QED BY <2>4, <2>5
<1>7. \/ answer' = answer /\ result' = result
      \/ \E r \in Requests : ServePreloaded(r) \/ ServeHit(r)
      \/ \E k \in Keys : Compiled(k) \/ RecheckHit(k) \/ CompileFailed(k) \/ Deliver(k)
  BY DEF Next, RequestStep, TaskStep, Miss, Join, Disconnect, QueueForSlot,
         RecheckMiss, requestVars, taskVars, vars
<1>. QED BY <1>1, <1>2, <1>3, <1>5, <1>6, <1>7

-----------------------------------------------------------------------------

LEMMA InitInv == Init => IInv
<1> SUFFICES ASSUME Init PROVE IInv
  OBVIOUS
<1>1. TypeOK
  BY InitType
<1>2. CacheWellFormed /\ \A k \in Keys : ~Cached(k)
  <2>1. entries = <<>> /\ Len(entries) = 0 /\ DOMAIN entries = {}
    BY EmptySeq DEF Init
  <2>. QED BY <2>1, CapacityAssumption DEF CacheWellFormed, Cached
<1>3. SlotInv
  <2>1. DOMAIN slotQueue = {}
    BY DEF Init
  <2>. QED BY <2>1 DEF Init, SlotInv
<1>4. WaiterInv
  BY DEF Init, WaiterInv, WaitersHaveTask
<1>5. EngineInv
  <2>1. DOMAIN entries = {}
    BY DEF Init
  <2>. QED BY <2>1 DEF Init, EngineInv, NoResult, NoAnswer, AnswersOwnProfile
<1>6. MissInv
  BY DEF Init, MissInv, OneMissPerCompile, NoResult, NoAnswer
<1>. QED BY <1>1, <1>2, <1>3, <1>4, <1>5, <1>6 DEF IInv

\* The inductive invariant: every group of conjuncts is kept by every step.
THEOREM Invariance == Spec => []IInv
<1>1. IInv /\ [Next]_vars => IInv'
  BY TypeStep, CacheStep, SlotStep, WaiterStep, EngineStep, MissStep DEF IInv
<1>. QED BY InitInv, <1>1, PTL DEF Spec

\* The state keeps its shape; failures are never cached and named profiles
\* never occupy the cache (resolve_dynamic_profile, insert).
THEOREM TypeCorrect == Spec => []TypeOK
<1>1. IInv => TypeOK
  BY DEF IInv
<1>. QED BY <1>1, Invariance, PTL

\* The LRU never exceeds its capacity nor holds a document twice, although
\* insert checks neither.
THEOREM CacheShape == Spec => []CacheWellFormed
<1>1. IInv => CacheWellFormed
  BY DEF IInv
<1>. QED BY <1>1, Invariance, PTL

\* At most one compile runs, and never for a cached document.
THEOREM SingleCompile == Spec => []OneCompile
<1>1. IInv => OneCompile
  BY DEF IInv, SlotInv, OneCompile, HoldsSlot
<1>. QED BY <1>1, Invariance, PTL

\* No waiter is ever left in the pending map without a task to drain it.
THEOREM NoOrphanedWaiter == Spec => []WaitersHaveTask
<1>1. IInv => WaitersHaveTask
  BY DEF IInv, WaiterInv
<1>. QED BY <1>1, Invariance, PTL

\* Every successful answer carries an engine compiled from its document.
THEOREM OwnEngine == Spec => []AnswersOwnProfile
<1>1. IInv => AnswersOwnProfile
  BY DEF IInv, EngineInv
<1>. QED BY <1>1, Invariance, PTL

\* A compile is reported as a miss to at most one client.
THEOREM SingleMiss == Spec => []OneMissPerCompile
<1>1. IInv => OneMissPerCompile
  BY DEF IInv, MissInv
<1>. QED BY <1>1, Invariance, PTL
=============================================================================
