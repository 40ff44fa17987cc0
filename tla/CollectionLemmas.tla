-------------------------- MODULE CollectionLemmas ---------------------------
(***************************************************************************)
(* What the helpers on sequences and sets do to any argument: removing,    *)
(* appending and evicting elements, the least and the greatest of some     *)
(* numbers, lists and what they are folded into, the sizes of sets,        *)
(* forests whose trees are united, sets that spread along links, orders    *)
(* that elements are inserted into, and parts divided into two groups.     *)
(***************************************************************************)
EXTENDS SequencesExt, SequenceTheorems, FiniteSetTheorems, WellFoundedInduction, TLAPS

\* Every nonempty set of numbers has a least one.
LEMMA MinIsLeast ==
  ASSUME NEW S \in SUBSET Nat, S # {}
  PROVE  Min(S) \in S /\ \A y \in S : Min(S) <= y
<1>1. PICK x \in S : \A y \in S : ~(<<y, x>> \in OpToRel(<, Nat))
  BY NatLessThanWellFounded, WFMin, Zenon
<1>2. \A y \in S : x <= y
  <2>1. \A y \in S : ~(y < x)
    BY <1>1, Zenon DEF OpToRel
  <2> QED BY <2>1
<1> QED BY <1>2 DEF Min

\* Removing an element closes the gap and keeps the order of the others.
LEMMA RemoveAtProperties ==
  ASSUME NEW S, NEW s \in Seq(S), NEW i \in 1..Len(s)
  PROVE  /\ RemoveAt(s, i) \in Seq(S)
         /\ Len(RemoveAt(s, i)) = Len(s) - 1
         /\ \A j \in 1..(Len(s) - 1) :
              RemoveAt(s, i)[j] = IF j < i THEN s[j] ELSE s[j + 1]
<1> DEFINE a == SubSeq(s, 1, i - 1)
           b == SubSeq(s, i + 1, Len(s))
<1>1. Len(s) \in Nat /\ DOMAIN s = 1..Len(s) /\ \A j \in 1..Len(s) : s[j] \in S
  BY LenProperties, ElementOfSeq
<1>2. /\ a \in Seq(S) /\ Len(a) = i - 1
      /\ \A j \in 1..(i - 1) : a[j] = s[j]
  <2>1. 1 \in Int /\ i - 1 \in Int /\ \A j \in 1..(i - 1) : s[j] \in S
    BY <1>1
  <2>2. /\ a \in Seq(S)
        /\ Len(a) = IF 1 <= i - 1 THEN (i - 1) - 1 + 1 ELSE 0
        /\ \A j \in 1..((i - 1) - 1 + 1) : a[j] = s[1 + j - 1]
    BY <2>1, SubSeqProperties
  <2> HIDE DEF a, b
  <2>3. ASSUME NEW j \in 1..(i - 1) PROVE a[j] = s[j]
    <3>1. j \in 1..((i - 1) - 1 + 1) /\ 1 + j - 1 = j
      BY <1>1
    <3>. QED BY <2>2, <3>1
  <2>4. Len(a) = i - 1
    BY <1>1, <2>2
  <2>. QED BY <2>2, <2>3, <2>4
<1>3. /\ b \in Seq(S) /\ Len(b) = Len(s) - i
      /\ \A j \in 1..(Len(s) - i) : b[j] = s[i + j]
  <2>1. i + 1 \in Int /\ Len(s) \in Int /\ \A j \in (i + 1)..Len(s) : s[j] \in S
    BY <1>1
  <2>2. /\ b \in Seq(S)
        /\ Len(b) = IF i + 1 <= Len(s) THEN Len(s) - (i + 1) + 1 ELSE 0
        /\ \A j \in 1..(Len(s) - (i + 1) + 1) : b[j] = s[(i + 1) + j - 1]
    BY <2>1, SubSeqProperties
  <2> HIDE DEF a, b
  <2>3. ASSUME NEW j \in 1..(Len(s) - i) PROVE b[j] = s[i + j]
    <3>1. j \in 1..(Len(s) - (i + 1) + 1) /\ (i + 1) + j - 1 = i + j
      BY <1>1
    <3>. QED BY <2>2, <3>1
  <2>4. Len(b) = Len(s) - i
    <3>1. /\ Len(s) \in Nat
          /\ Len(b) = IF i + 1 <= Len(s) THEN Len(s) - (i + 1) + 1 ELSE 0
      BY <1>1, <2>2
    <3>. QED BY <3>1
  <2>. QED BY <2>2, <2>3, <2>4
<1>4. /\ a \o b \in Seq(S) /\ Len(a \o b) = Len(a) + Len(b)
      /\ \A j \in 1..(Len(a) + Len(b)) :
           (a \o b)[j] = IF j <= Len(a) THEN a[j] ELSE b[j - Len(a)]
  BY <1>2, <1>3, ConcatProperties
<1>5. RemoveAt(s, i) = a \o b
  BY DEF RemoveAt
<1> HIDE DEF a, b
<1>6. Len(a) + Len(b) = Len(s) - 1
  BY <1>1, <1>2, <1>3
<1>7. ASSUME NEW j \in 1..(Len(s) - 1)
      PROVE  (a \o b)[j] = IF j < i THEN s[j] ELSE s[j + 1]
  <2>1. CASE j < i
    <3>1. j \in 1..(i - 1) /\ j <= Len(a) /\ j \in 1..(Len(a) + Len(b))
      BY <1>1, <1>2, <1>6, <2>1
    <3>. QED BY <1>2, <1>4, <2>1, <3>1
  <2>2. CASE ~(j < i)
    <3>1. /\ ~(j <= Len(a)) /\ j \in 1..(Len(a) + Len(b))
          /\ j - Len(a) \in 1..(Len(s) - i) /\ i + (j - Len(a)) = j + 1
      BY <1>1, <1>2, <1>6, <2>2
    <3>. QED BY <1>3, <1>4, <2>2, <3>1
  <2>. QED BY <2>1, <2>2
<1>. QED BY <1>4, <1>5, <1>6, <1>7

-----------------------------------------------------------------------------
(* Sequences as the sets of their elements.                                *)

\* A sequence is one over its own elements.
LEMMA OverItsRange ==
  ASSUME NEW S, NEW s \in Seq(S)
  PROVE  /\ s \in Seq(Range(s)) /\ Len(s) \in Nat /\ DOMAIN s = 1..Len(s)
         /\ Range(s) \subseteq S
         /\ \A e : e \in Range(s) <=> \E i \in 1..Len(s) : s[i] = e
<1>1. Len(s) \in Nat /\ DOMAIN s = 1..Len(s)
  BY LenProperties
<1>2. \A i \in 1..Len(s) : s[i] \in S
  BY ElementOfSeq
<1>3. \A e : e \in Range(s) <=> \E i \in 1..Len(s) : s[i] = e
  BY <1>1, Zenon DEF Range
<1>4. Range(s) \subseteq S
  BY <1>2, <1>3
<1>5. s \in [1..Len(s) -> Range(s)]
  BY <1>1, <1>3, LenProperties
<1> HIDE DEF Range
<1>6. s \in Seq(Range(s))
  BY <1>1, <1>5
<1> QED BY <1>1, <1>3, <1>4, <1>6

\* Appending adds the element.
LEMMA AppendRange ==
  ASSUME NEW s, s \in Seq(Range(s)), NEW e
  PROVE  LET t == Append(s, e) IN
         /\ t \in Seq(Range(t)) /\ Range(t) = Range(s) \cup {e}
         /\ Len(t) = Len(s) + 1 /\ DOMAIN t = 1..(Len(s) + 1)
         /\ t[Len(s) + 1] = e /\ \A j \in 1..Len(s) : t[j] = s[j]
<1> DEFINE t == Append(s, e)
           S == Range(s) \cup {e}
<1>1. s \in Seq(S) /\ e \in S
  BY SeqMonotonic
<1>2. /\ t \in Seq(S) /\ Len(t) = Len(s) + 1
      /\ \A i \in 1..Len(s) : t[i] = s[i]
      /\ t[Len(s) + 1] = e
  BY <1>1, AppendProperties
<1>3. /\ Len(s) \in Nat
      /\ \A x : x \in Range(s) <=> \E i \in 1..Len(s) : s[i] = x
  BY OverItsRange
<1> HIDE DEF t, S
<1>4. /\ t \in Seq(Range(t)) /\ DOMAIN t = 1..Len(t)
      /\ \A x : x \in Range(t) <=> \E i \in 1..Len(t) : t[i] = x
  BY <1>2, OverItsRange
<1>5. \A i : i \in 1..Len(t) <=> i \in 1..Len(s) \/ i = Len(s) + 1
  BY <1>2, <1>3
<1>6. \A x : x \in Range(t) <=> x \in Range(s) \/ x = e
  BY <1>2, <1>3, <1>4, <1>5, Zenon
<1>7. Range(t) = Range(s) \cup {e}
  BY <1>6
<1> QED BY <1>2, <1>4, <1>7 DEF t

\* Removing a position leaves the elements of the others.
LEMMA RemoveAtRange ==
  ASSUME NEW s, s \in Seq(Range(s)), NEW i \in 1..Len(s)
  PROVE  LET t == RemoveAt(s, i) IN
         /\ t \in Seq(Range(t)) /\ Len(t) = Len(s) - 1 /\ DOMAIN t = 1..(Len(s) - 1)
         /\ \A j \in 1..(Len(s) - 1) : t[j] = IF j < i THEN s[j] ELSE s[j + 1]
         /\ Range(t) \subseteq Range(s)
         /\ \A x \in Range(s) : x = s[i] \/ x \in Range(t)
<1> DEFINE t == RemoveAt(s, i)
<1>1. /\ t \in Seq(Range(s)) /\ Len(t) = Len(s) - 1
      /\ \A j \in 1..(Len(s) - 1) : t[j] = IF j < i THEN s[j] ELSE s[j + 1]
  BY RemoveAtProperties
<1>2. /\ Len(s) \in Nat
      /\ \A x : x \in Range(s) <=> \E j \in 1..Len(s) : s[j] = x
  BY OverItsRange
<1> HIDE DEF t
<1>3. /\ t \in Seq(Range(t)) /\ DOMAIN t = 1..Len(t) /\ Range(t) \subseteq Range(s)
      /\ \A x : x \in Range(t) <=> \E j \in 1..Len(t) : t[j] = x
  BY <1>1, OverItsRange
<1>4. ASSUME NEW x \in Range(s), x # s[i] PROVE x \in Range(t)
  <2>1. PICK j \in 1..Len(s) : s[j] = x
    BY <1>2
  <2>2. CASE j < i
    <3>1. j \in 1..(Len(s) - 1) /\ j \in 1..Len(t)
      BY <1>1, <1>2, <2>2
    <3> QED BY <1>1, <1>3, <2>1, <2>2, <3>1
  <2>3. CASE ~(j < i)
    <3>1. j # i
      BY <1>4, <2>1
    <3>2. j - 1 \in 1..(Len(s) - 1) /\ j - 1 \in 1..Len(t) /\ ~(j - 1 < i) /\ j - 1 + 1 = j
      BY <1>1, <1>2, <2>3, <3>1
    <3>3. t[j - 1] = x
      BY <1>1, <2>1, <3>2
    <3> QED BY <1>3, <3>2, <3>3
  <2> QED BY <2>2, <2>3
<1>5. \A x \in Range(s) : x = s[i] \/ x \in Range(t)
  BY <1>4
<1> QED BY <1>1, <1>3, <1>5 DEF t

\* Evicting the first element.
LEMMA TailRange ==
  ASSUME NEW s, s \in Seq(Range(s)), Len(s) > 0
  PROVE  LET t == Tail(s) IN
         /\ t \in Seq(Range(t)) /\ Len(t) = Len(s) - 1 /\ DOMAIN t = 1..(Len(s) - 1)
         /\ \A j \in 1..(Len(s) - 1) : t[j] = s[j + 1]
         /\ Range(t) \subseteq Range(s)
<1> DEFINE t == Tail(s)
<1>1. s # <<>>
  BY EmptySeq
<1>2. /\ t \in Seq(Range(s)) /\ Len(t) = Len(s) - 1
      /\ \A j \in 1..Len(t) : t[j] = s[j + 1]
  BY <1>1, HeadTailProperties
<1> HIDE DEF t
<1>3. t \in Seq(Range(t)) /\ DOMAIN t = 1..Len(t) /\ Range(t) \subseteq Range(s)
  BY <1>2, OverItsRange
<1> QED BY <1>2, <1>3 DEF t


\* The numbers reached from 0 by steps of one are all.
LEMMA StepByStep ==
  ASSUME NEW S, 0 \in S, \A n \in Nat : n \in S => n + 1 \in S
  PROVE  Nat \subseteq S
<1>1. SUFFICES ASSUME Nat \ S # {} PROVE FALSE
  OBVIOUS
<1>2. PICK m \in Nat \ S : \A y \in Nat \ S : m <= y
  BY <1>1, MinIsLeast
<1>3. m # 0 /\ m - 1 \in Nat /\ m - 1 \in S /\ (m - 1) + 1 = m
  BY <1>2
<1> QED BY <1>2, <1>3

\* What rises from each number to the next rises from any to any later one.
LEMMA RisesByStep ==
  ASSUME NEW k \in Nat, NEW h \in [1..k -> Int], \A n \in 2..k : h[n - 1] < h[n]
  PROVE  \A i, j \in 1..k : i < j => h[i] < h[j]
<1> DEFINE T == {d \in Nat : \A i \in 1..k : i + d <= k => h[i] <= h[i + d] /\ (d > 0 => h[i] < h[i + d])}
<1>1. 0 \in T
  OBVIOUS
<1>2. ASSUME NEW d \in Nat, d \in T PROVE d + 1 \in T
  <2>1. SUFFICES ASSUME NEW i \in 1..k, i + (d + 1) <= k PROVE h[i] < h[i + (d + 1)]
    OBVIOUS
  <2>2. PICK m \in Nat : m = i + d
    OBVIOUS
  <2>3. m \in 1..k /\ m + 1 \in 2..k /\ i + (d + 1) = m + 1 /\ (m + 1) - 1 = m
    BY <2>1, <2>2
  <2>4. h[i] <= h[m]
    BY <1>2, <2>2, <2>3
  <2>5. h[m] < h[m + 1]
    BY <2>3
  <2> QED BY <2>3, <2>4, <2>5
<1>3. ASSUME NEW i \in 1..k, NEW j \in 1..k, i < j PROVE h[i] < h[j]
  <2>1. PICK d \in Nat : d = j - i
    BY <1>3
  <2>2. d \in T
    <3> HIDE DEF T
    <3> QED BY <1>1, <1>2, StepByStep
  <2>3. d > 0 /\ i + d = j /\ j <= k
    BY <1>3, <2>1
  <2> QED BY <2>2, <2>3
<1> QED BY <1>3

\* A nonempty set of positions has a last one.
LEMMA MaxIsGreatest ==
  ASSUME NEW n \in Nat, NEW S \in SUBSET (1..n), S # {}
  PROVE  Max(S) \in S /\ \A y \in S : y <= Max(S)
<1> DEFINE R == {k \in Nat : \A y \in S : y <= k}
<1>1. n \in R
  OBVIOUS
<1>2. PICK m \in R : \A k \in R : m <= k
  BY <1>1, MinIsLeast
<1>3. m \in S
  <2>1. SUFFICES ASSUME m \notin S PROVE FALSE
    OBVIOUS
  <2>2. \A y \in S : y <= m - 1 /\ m - 1 \in Nat
    BY <1>2, <2>1
  <2>3. m - 1 \in R
    BY <2>2
  <2> QED BY <1>2, <2>3
<1>4. \A y \in S : m >= y
  BY <1>2
<1>5. \A x \in S : (\A y \in S : x >= y) => x = m
  BY <1>3, <1>4
<1>6. Max(S) = m
  BY <1>3, <1>4, <1>5 DEF Max
<1> QED BY <1>3, <1>4, <1>6

\* The greatest of some numbers, zero among them or not.
LEMMA MaxIsOneOf ==
  ASSUME NEW n \in Nat, NEW S \in SUBSET (0..n), S # {}
  PROVE  Max(S) \in S /\ \A y \in S : y <= Max(S)
<1>1. \E x \in S : \A y \in S : x >= y
  <2>1. CASE S \subseteq {0}
    <3>1. S = {0}
      BY <2>1
    <3> QED BY <3>1
  <2>2. CASE ~(S \subseteq {0})
    <3>1. S \ {0} \in SUBSET (1..n) /\ S \ {0} # {}
      BY <2>2
    <3>2. PICK x : x = Max(S \ {0})
      OBVIOUS
    <3>3. x \in S \ {0} /\ \A y \in S \ {0} : y <= x
      BY <3>1, <3>2, MaxIsGreatest
    <3>4. x \in 1..n /\ \A y \in S : y \in 0..n
      BY <3>1, <3>3
    <3>5. \A y \in S : x >= y
      BY <3>3, <3>4
    <3> QED BY <3>3, <3>5
  <2> QED BY <2>1, <2>2
<1>2. Max(S) \in S /\ \A y \in S : Max(S) >= y
  BY <1>1, Zenon DEF Max
<1> QED BY <1>2

\* What holds of no positions, and of a set of positions when it holds of the
\* set without its last one, holds of every set: how a fold from the left goes.
LEMMA FoldInduction ==
  ASSUME NEW n \in Nat, NEW P, {} \in P,
         \A S \in SUBSET (1..n) : S # {} /\ S \ {Max(S)} \in P => S \in P
  PROVE  SUBSET (1..n) \subseteq P
<1> DEFINE T == {k \in Nat : \A S \in SUBSET (1..n) : S \subseteq 1..k => S \in P}
<1>1. 0 \in T
  <2>1. \A S : S \subseteq 1..0 => S = {}
    OBVIOUS
  <2> QED BY <2>1
<1>2. ASSUME NEW k \in Nat, k \in T PROVE k + 1 \in T
  <2>1. SUFFICES ASSUME NEW S \in SUBSET (1..n), S \subseteq 1..(k + 1), S # {} PROVE S \in P
    BY <1>2
  <2>2. Max(S) \in S /\ \A y \in S : y <= Max(S)
    BY <2>1, MaxIsGreatest
  <2>3. S \ {Max(S)} \subseteq 1..k
    <3>1. PICK m \in S : m = Max(S) /\ \A y \in S : y <= m
      BY <2>2
    <3>2. \A y \in S : y # m => y \in 1..k
      BY <2>1, <3>1
    <3> QED BY <3>1, <3>2
  <2>4. S \ {Max(S)} \in SUBSET (1..n)
    BY <2>1
  <2>5. S \ {Max(S)} \in P
    BY <1>2, <2>3, <2>4
  <2> QED BY <2>1, <2>5
<1>3. n \in T
  <2> HIDE DEF T
  <2> QED BY <1>1, <1>2, StepByStep
<1> QED BY <1>3

\* Flattening joins the parts from the left.
LEMMA FlattenSteps ==
  ASSUME NEW E, NEW ss \in Seq(Seq(E)), Len(ss) > 0
  PROVE  \E f : /\ FlattenSeq(ss) = f[Len(ss)] /\ f[1] = ss[1]
                /\ \A k \in 2..Len(ss) : f[k] = f[k - 1] \o ss[k]
                /\ \A k \in 1..Len(ss) : f[k] \in Seq(E)
<1> DEFINE Joined(f, n) == f = [i \in 1..n |-> IF i = 1 THEN ss[i] ELSE f[i - 1] \o ss[i]]
           T == {n \in Nat : \E f : Joined(f, n)}
<1>1. Len(ss) \in Nat /\ DOMAIN ss = 1..Len(ss) /\ \A i \in 1..Len(ss) : ss[i] \in Seq(E)
  BY LenProperties, ElementOfSeq
<1>2. 0 \in T
  <2>1. Joined([i \in {} |-> i], 0)
    OBVIOUS
  <2> QED BY <2>1
<1>3. ASSUME NEW n \in Nat, n \in T PROVE n + 1 \in T
  <2>1. PICK f : Joined(f, n)
    BY <1>3
  <2> DEFINE g == [i \in 1..(n + 1) |->
                     IF i = 1 THEN ss[i] ELSE IF i = n + 1 THEN f[n] \o ss[i] ELSE f[i]]
  <2>2. ASSUME NEW i \in 1..(n + 1), i # 1 PROVE g[i] = g[i - 1] \o ss[i]
    <3>1. /\ i - 1 \in 1..n /\ (i = n + 1 => i - 1 = n) /\ (i # n + 1 => i \in 1..n)
          /\ i - 1 # n + 1 /\ i - 1 \in 1..(n + 1)
      BY <2>2
    <3>2. g[i - 1] = f[i - 1]
      BY <2>1, <3>1
    <3> QED BY <2>1, <2>2, <3>1, <3>2
  <2>3. \A i \in 1..(n + 1) : g[i] = IF i = 1 THEN ss[i] ELSE g[i - 1] \o ss[i]
    BY <2>2
  <2>4. Joined(g, n + 1)
    <3>1. g = [i \in 1..(n + 1) |-> g[i]]
      OBVIOUS
    <3> HIDE DEF g
    <3> QED BY <2>3, <3>1
  <2> HIDE DEF g, Joined
  <2> QED BY <2>4
<1>4. Len(ss) \in T
  <2> HIDE DEF T
  <2> QED BY <1>1, <1>2, <1>3, StepByStep
<1>5. \E f : Joined(f, Len(ss))
  BY <1>4
<1> DEFINE flat == CHOOSE f : Joined(f, Len(ss))
<1>6. Joined(flat, Len(ss))
  BY <1>5, Zenon
<1>7. FlattenSeq(ss) = flat[Len(ss)]
  <2>1. Len(ss) # 0
    BY <1>1
  <2> QED BY <2>1, Zenon DEF FlattenSeq
<1> HIDE DEF flat
<1>8. flat[1] = ss[1] /\ \A k \in 2..Len(ss) : flat[k] = flat[k - 1] \o ss[k]
  <2>1. 1 \in 1..Len(ss) /\ \A k \in 2..Len(ss) : k \in 1..Len(ss) /\ k # 1
    BY <1>1
  <2> QED BY <1>6, <2>1
<1> DEFINE U == {n \in Nat : n + 1 \in 1..Len(ss) => flat[n + 1] \in Seq(E)}
<1>9. 0 \in U
  BY <1>1, <1>8
<1>10. ASSUME NEW n \in Nat, n \in U PROVE n + 1 \in U
  <2>1. SUFFICES ASSUME (n + 1) + 1 \in 1..Len(ss) PROVE flat[(n + 1) + 1] \in Seq(E)
    OBVIOUS
  <2>2. n + 1 \in 1..Len(ss) /\ (n + 1) + 1 \in 2..Len(ss) /\ ((n + 1) + 1) - 1 = n + 1
    BY <2>1, <1>1
  <2>3. flat[n + 1] \in Seq(E) /\ ss[(n + 1) + 1] \in Seq(E)
    BY <1>1, <1>10, <2>1, <2>2
  <2>4. flat[(n + 1) + 1] = flat[n + 1] \o ss[(n + 1) + 1]
    BY <1>8, <2>2
  <2> QED BY <2>3, <2>4, ConcatProperties
<1>11. Nat \subseteq U
  <2> HIDE DEF U
  <2> QED BY <1>9, <1>10, StepByStep
<1>12. \A k \in 1..Len(ss) : flat[k] \in Seq(E)
  <2>1. \A k \in 1..Len(ss) : k - 1 \in Nat /\ (k - 1) + 1 = k
    BY <1>1
  <2> QED BY <1>11, <2>1
<1> QED BY <1>7, <1>8, <1>12

-----------------------------------------------------------------------------
(* Functions defined step by step from 0.                                  *)

Follows(f, n, D, d, next) ==
  f \in [0..n -> D] /\ f[0] = d /\ \A v \in 1..n : f[v] = next[<<v, f[v - 1]>>]

\* Such a function exists.
LEMMA Stepwise ==
  ASSUME NEW n \in Nat, NEW D, NEW d \in D, NEW next \in [(1..n) \X D -> D]
  PROVE  \E f : Follows(f, n, D, d, next)
<1> DEFINE Good(f, m) == f \in [0..m -> D] /\ f[0] = d /\ \A v \in 1..m : f[v] = next[<<v, f[v - 1]>>]
           T == {m \in Nat : m <= n => \E f : Good(f, m)}
<1>1. 0 \in T
  <2>1. Good([v \in 0..0 |-> d], 0)
    OBVIOUS
  <2> HIDE DEF Good
  <2> QED BY <2>1
<1>2. ASSUME NEW m \in Nat, m \in T PROVE m + 1 \in T
  <2>1. SUFFICES ASSUME m + 1 <= n PROVE \E f : Good(f, m + 1)
    OBVIOUS
  <2>2. m <= n /\ m + 1 \in 1..n
    BY <2>1
  <2>3. PICK f : Good(f, m)
    BY <1>2, <2>2
  <2>4. PICK e \in D : e = next[<<m + 1, f[m]>>]
    <3>1. f[m] \in D
      BY <2>3
    <3> QED BY <2>2, <3>1
  <2> DEFINE g == [v \in 0..(m + 1) |-> IF v = m + 1 THEN e ELSE f[v]]
  <2>5. g \in [0..(m + 1) -> D]
    BY <2>3
  <2>6. g[0] = d
    BY <2>3
  <2>7. ASSUME NEW v \in 1..(m + 1) PROVE g[v] = next[<<v, g[v - 1]>>]
    <3>1. v - 1 \in 0..m /\ v - 1 \in 0..(m + 1) /\ v - 1 # m + 1
      OBVIOUS
    <3>2. g[v - 1] = f[v - 1]
      BY <3>1
    <3>3. CASE v = m + 1
      BY <2>4, <3>1, <3>2, <3>3
    <3>4. CASE v # m + 1
      <4>1. v \in 1..m /\ v \in 0..(m + 1)
        BY <3>4
      <4>2. g[v] = f[v] /\ f[v] = next[<<v, f[v - 1]>>]
        BY <2>3, <3>4, <4>1
      <4> QED BY <3>2, <4>2
    <3> QED BY <3>3, <3>4
  <2> HIDE DEF g
  <2>8. Good(g, m + 1)
    BY <2>5, <2>6, <2>7
  <2> HIDE DEF Good
  <2> QED BY <2>8
<1>3. n \in T
  <2> HIDE DEF T
  <2> QED BY <1>1, <1>2, StepByStep
<1>4. PICK f : Good(f, n)
  BY <1>3
<1> QED BY <1>4 DEF Follows

-----------------------------------------------------------------------------
(* Lists: sequences of their own elements, each once or in an order.       *)

\* A list that names every element of a finite set once.
Lists(list, S) ==
  /\ IsFiniteSet(S) /\ list \in Seq(S) /\ Len(list) = Cardinality(S)
  /\ DOMAIN list = 1..Cardinality(S) /\ Range(list) = S
  /\ \A m, n \in 1..Cardinality(S) : list[m] = list[n] => m = n

\* A strict order tells which of two elements comes first.
Orders(R, S) ==
  /\ \A x, y \in S : x # y => <<x, y>> \in R \/ <<y, x>> \in R
  /\ \A x \in S : <<x, x>> \notin R
  /\ \A x, y, z \in S : <<x, y>> \in R /\ <<y, z>> \in R => <<x, z>> \in R

Listed(S, R) == [n \in 1..Cardinality(S) |-> CHOOSE x \in S : Cardinality({y \in S : <<y, x>> \in R}) = n - 1]

\* A list of as many entries as the set has elements, each of them once.
LEMMA ListsBy ==
  ASSUME NEW S, IsFiniteSet(S), NEW list, list \in [1..Cardinality(S) -> S],
         \/ \A x \in S : \E n \in 1..Cardinality(S) : list[n] = x
         \/ \A m, n \in 1..Cardinality(S) : list[m] = list[n] => m = n
  PROVE  Lists(list, S)
<1> DEFINE k == Cardinality(S)
<1>1. k \in Nat
  BY FS_CardinalityType
<1>2. IsFiniteSet(1..k) /\ Cardinality(1..k) = k
  BY <1>1, FS_Interval
<1>3. (\A x \in S : \E n \in 1..k : list[n] = x) => list \in Surjection(1..k, S)
  BY Zenon DEF Surjection
<1>4. (\A m, n \in 1..k : list[m] = list[n] => m = n) => list \in Injection(1..k, S)
  <2>1. DOMAIN list = 1..k
    OBVIOUS
  <2> QED BY <2>1, Zenon DEF Injection, IsInjective
<1>5. list \in Surjection(1..k, S) <=> list \in Injection(1..k, S)
  <2>1. list \in Surjection(1..k, S) => list \in Injection(1..k, S)
    <3> HIDE DEF k
    <3> QED BY <1>2, FS_SurjSameCardinalityImpliesInj DEF k
  <2>2. list \in Injection(1..k, S) => list \in Surjection(1..k, S)
    <3>1. list \in Injection(1..k, S) => (Cardinality(1..k) = Cardinality(S) <=> list \in Surjection(1..k, S))
      BY FS_Injection
    <3> QED BY <3>1, <1>2
  <2> QED BY <2>1, <2>2
<1>6. list \in Surjection(1..k, S) /\ list \in Injection(1..k, S)
  BY <1>3, <1>4, <1>5
<1>7. DOMAIN list = 1..k
  OBVIOUS
<1>8. \A m, n \in 1..k : list[m] = list[n] => m = n
  BY <1>6, <1>7, Zenon DEF Injection, IsInjective
<1>9. Range(list) = S
  <2>1. \A x \in S : \E n \in 1..k : list[n] = x
    BY <1>6, Zenon DEF Surjection
  <2>2. \A n \in 1..k : list[n] \in S
    OBVIOUS
  <2>3. \A x : x \in Range(list) <=> \E n \in 1..k : list[n] = x
    BY <1>7, Zenon DEF Range
  <2>4. \A x : x \in Range(list) <=> x \in S
    <3>1. ASSUME NEW x \in Range(list) PROVE x \in S
      BY <2>2, <2>3
    <3>2. ASSUME NEW x \in S PROVE x \in Range(list)
      BY <2>1, <2>3
    <3> HIDE DEF Range
    <3> QED BY <3>1, <3>2
  <2> HIDE DEF Range
  <2> QED BY <2>4
<1>10. list \in Seq(S) /\ Len(list) = k
  BY <1>1
<1> QED BY <1>7, <1>8, <1>9, <1>10 DEF Lists

\* What an order sorts: each element has its own number of elements before it.
LEMMA Arranging ==
  ASSUME NEW S, IsFiniteSet(S), NEW R, Orders(R, S)
  PROVE  /\ Lists(Listed(S, R), S)
         /\ \A m, n \in 1..Cardinality(S) : m < n => <<Listed(S, R)[m], Listed(S, R)[n]>> \in R
<1> DEFINE k == Cardinality(S)
           below(x) == {y \in S : <<y, x>> \in R}
           at == [x \in S |-> Cardinality(below(x)) + 1]
           list == Listed(S, R)
<1>1. k \in Nat
  BY FS_CardinalityType
<1>2. ASSUME NEW x \in S PROVE /\ IsFiniteSet(below(x)) /\ Cardinality(below(x)) \in Nat /\ Cardinality(below(x)) < k
  <2>1. below(x) \in SUBSET S /\ x \notin below(x) /\ below(x) # S
    BY DEF Orders
  <2> HIDE DEF below
  <2>2. IsFiniteSet(below(x)) /\ Cardinality(below(x)) <= k /\ (k = Cardinality(below(x)) => S = below(x))
    BY <2>1, FS_Subset
  <2>3. Cardinality(below(x)) \in Nat
    BY <2>2, FS_CardinalityType
  <2> QED BY <2>1, <2>2, <2>3, <1>1
<1>3. ASSUME NEW x \in S, NEW y \in S, <<x, y>> \in R PROVE Cardinality(below(x)) < Cardinality(below(y))
  <2>1. below(x) \in SUBSET below(y) /\ x \in below(y) /\ x \notin below(x)
    BY <1>3 DEF Orders
  <2>2. below(x) # below(y)
    BY <2>1
  <2> HIDE DEF below
  <2>3. IsFiniteSet(below(y)) /\ Cardinality(below(x)) <= Cardinality(below(y)) /\ (Cardinality(below(y)) = Cardinality(below(x)) => below(y) = below(x))
    BY <1>2, <2>1, FS_Subset
  <2> QED BY <1>2, <2>2, <2>3
<1> HIDE DEF below, k
<1>4. at \in [S -> 1..k]
  BY <1>1, <1>2
<1>5. \A x, y \in S : at[x] = at[y] => x = y
  <2>1. \A x, y \in S : x # y => <<x, y>> \in R \/ <<y, x>> \in R
    BY DEF Orders
  <2>2. ASSUME NEW x \in S, NEW y \in S, x # y PROVE at[x] # at[y]
    <3>1. Cardinality(below(x)) < Cardinality(below(y)) \/ Cardinality(below(y)) < Cardinality(below(x))
      BY <1>3, <2>1, <2>2
    <3> QED BY <3>1, <1>2
  <2> QED BY <2>2
<1>6. \A n \in 1..k : \E x \in S : at[x] = n
  <2>1. at \in Injection(S, 1..k)
    <3>1. DOMAIN at = S
      OBVIOUS
    <3> QED BY <1>4, <1>5, <3>1, Zenon DEF Injection, IsInjective
  <2>2. IsFiniteSet(1..k) /\ Cardinality(1..k) = k
    BY <1>1, FS_Interval
  <2>3. at \in Surjection(S, 1..k)
    <3> HIDE DEF at
    <3>1. Cardinality(S) = Cardinality(1..k) <=> at \in Surjection(S, 1..k)
      BY <2>1, <2>2, FS_Injection
    <3> QED BY <3>1, <2>2 DEF k
  <2> HIDE DEF at
  <2> QED BY <2>3, Zenon DEF Surjection
<1>7. ASSUME NEW n \in 1..k PROVE list[n] \in S /\ at[list[n]] = n
  <2>1. list[n] = CHOOSE x \in S : Cardinality(below(x)) = n - 1
    BY Zenon DEF Listed, k, below
  <2>2. PICK x \in S : at[x] = n
    BY <1>6
  <2>3. Cardinality(below(x)) = n - 1
    BY <2>2, <1>2
  <2>4. list[n] \in S /\ Cardinality(below(list[n])) = n - 1
    BY <2>1, <2>3, Zenon
  <2> HIDE DEF list
  <2> QED BY <2>4
<1>8. list \in [1..k -> S]
  <2> DEFINE pick(n) == CHOOSE x \in S : Cardinality(below(x)) = n - 1
  <2>1. list = [n \in 1..k |-> pick(n)]
    BY Zenon DEF Listed, k, below
  <2> HIDE DEF list, pick
  <2> QED BY <2>1, <1>7
<1>9. \A m, n \in 1..k : list[m] = list[n] => m = n
  <2> HIDE DEF list, at
  <2> QED BY <1>7
<1>10. Lists(list, S)
  <2> HIDE DEF list, at
  <2> QED BY <1>8, <1>9, ListsBy DEF k
<1>11. ASSUME NEW m \in 1..k, NEW n \in 1..k, m < n PROVE <<list[m], list[n]>> \in R
  <2>1. list[m] \in S /\ list[n] \in S /\ at[list[m]] = m /\ at[list[n]] = n
    BY <1>7
  <2> HIDE DEF list
  <2>2. Cardinality(below(list[m])) < Cardinality(below(list[n]))
    BY <1>2, <1>11, <2>1
  <2>3. list[m] # list[n]
    BY <2>1, <1>11
  <2>4. ~(<<list[n], list[m]>> \in R)
    BY <1>2, <1>3, <2>1, <2>2
  <2> QED BY <2>1, <2>3, <2>4 DEF Orders
<1> QED BY <1>10, <1>11 DEF k

\* The first of some numbers, by a value and then by themselves.
LEMMA FirstRanked ==
  ASSUME NEW S \in SUBSET Int, IsFiniteSet(S), S # {}, NEW value \in [S -> Int]
  PROVE  \E e \in S : \A f \in S : value[e] < value[f] \/ (value[e] = value[f] /\ e <= f)
<1> DEFINE before(a, b) == value[a] < value[b] \/ (value[a] = value[b] /\ a < b)
           R == {p \in S \X S : before(p[1], p[2])}
           list == Listed(S, R)
<1>1. Orders(R, S)
  BY DEF Orders
<1>2. \A a, b : <<a, b>> \in R => before(a, b)
  OBVIOUS
<1> HIDE DEF R
<1>3. /\ Lists(list, S)
      /\ \A m, n \in 1..Cardinality(S) : m < n =>
           value[list[m]] < value[list[n]] \/ (value[list[m]] = value[list[n]] /\ list[m] < list[n])
  BY <1>1, <1>2, Arranging
<1>4. Cardinality(S) \in Nat /\ Cardinality(S) # 0
  BY FS_CardinalityType, FS_EmptySet
<1> HIDE DEF list
<1>5. 1 \in 1..Cardinality(S) /\ \A n \in 1..Cardinality(S) : list[n] \in S /\ (n = 1 \/ 1 < n)
  BY <1>3, <1>4 DEF Lists
<1>6. \A f \in S : \E n \in 1..Cardinality(S) : list[n] = f
  <2>1. Range(list) = S /\ DOMAIN list = 1..Cardinality(S)
    BY <1>3 DEF Lists
  <2>2. \A f : f \in Range(list) <=> \E n \in DOMAIN list : list[n] = f
    BY Zenon DEF Range
  <2> HIDE DEF Range
  <2> QED BY <2>1, <2>2, Zenon
<1>7. \A f \in S : value[list[1]] < value[f] \/ (value[list[1]] = value[f] /\ list[1] <= f)
  <2>1. SUFFICES ASSUME NEW f \in S PROVE value[list[1]] < value[f] \/ (value[list[1]] = value[f] /\ list[1] <= f)
    OBVIOUS
  <2>2. PICK n \in 1..Cardinality(S) : list[n] = f
    BY <1>6
  <2>3. CASE n = 1
    <3>1. list[1] = f /\ f \in Int /\ value[f] \in Int
      BY <2>2, <2>3
    <3> QED BY <3>1
  <2>4. CASE 1 < n
    <3>1. list[1] \in Int /\ f \in Int
      BY <1>5
    <3> QED BY <1>3, <1>5, <2>2, <2>4, <3>1
  <2> QED BY <1>5, <2>3, <2>4
<1> QED BY <1>5, <1>7

\* at[i][s] folds the positions of s up to i: it changes where s has a position,
\* and alike for sets that led to the same value.
Accumulates(at, n) ==
  /\ \A s, t \in SUBSET (1..n) : at[0][s] = at[0][t]
  /\ \A i \in 1..n, s \in SUBSET (1..n) : i \notin s => at[i][s] = at[i - 1][s]
  /\ \A i \in 1..n, s, t \in SUBSET (1..n) : i \in s /\ i \in t /\ at[i - 1][s] = at[i - 1][t] => at[i][s] = at[i][t]

EndsWith(at, n, s) ==
  /\ s = {} => at[n][s] = at[0][s]
  /\ s # {} => /\ Max(s) \in s
               /\ at[n][s] = at[Max(s)][s] /\ at[Max(s) - 1][s] = at[n][s \ {Max(s)}]

\* The last position is folded onto what the others give.
LEMMA Accumulating ==
  ASSUME NEW n \in Nat, NEW at, Accumulates(at, n), NEW s \in SUBSET (1..n)
  PROVE  EndsWith(at, n, s)
<1>0. /\ \A a, b \in SUBSET (1..n) : at[0][a] = at[0][b]
      /\ \A i \in 1..n, a \in SUBSET (1..n) : i \notin a => at[i][a] = at[i - 1][a]
      /\ \A i \in 1..n, a, b \in SUBSET (1..n) : i \in a /\ i \in b /\ at[i - 1][a] = at[i - 1][b] => at[i][a] = at[i][b]
  BY Zenon DEF Accumulates
<1>1. ASSUME NEW a \in SUBSET (1..n), NEW m \in 0..n, \A i \in a : i <= m PROVE at[n][a] = at[m][a]
  <2> DEFINE T == {i \in Nat : m + i <= n => at[m + i][a] = at[m][a]}
  <2>1. 0 \in T
    OBVIOUS
  <2>2. ASSUME NEW i \in Nat, i \in T PROVE i + 1 \in T
    <3>1. SUFFICES ASSUME m + (i + 1) <= n PROVE at[m + (i + 1)][a] = at[m][a]
      OBVIOUS
    <3>2. m + (i + 1) \in 1..n /\ m + (i + 1) \notin a /\ (m + (i + 1)) - 1 = m + i /\ m + i <= n
      BY <1>1, <3>1
    <3>3. at[m + (i + 1)][a] = at[m + i][a]
      BY <1>0, <3>2
    <3> QED BY <2>2, <3>2, <3>3
  <2>3. Nat \subseteq T
    <3> HIDE DEF T
    <3> QED BY <2>1, <2>2, StepByStep
  <2>4. n - m \in Nat /\ m + (n - m) = n
    OBVIOUS
  <2>5. n - m \in T
    BY <2>3, <2>4
  <2> QED BY <2>4, <2>5
<1>2. ASSUME s = {} PROVE at[n][s] = at[0][s]
  <2>1. 0 \in 0..n /\ \A i \in s : i <= 0
    BY <1>2
  <2> QED BY <1>1, <2>1
<1>3. ASSUME s # {} PROVE /\ Max(s) \in s
                          /\ at[n][s] = at[Max(s)][s] /\ at[Max(s) - 1][s] = at[n][s \ {Max(s)}]
  <2>1. PICK m : m = Max(s)
    OBVIOUS
  <2>2. m \in s /\ m \in 1..n /\ \A i \in s : i <= m
    BY <1>3, <2>1, MaxIsGreatest
  <2>3. at[n][s] = at[m][s]
    BY <1>1, <2>2
  <2> DEFINE rest == s \ {m}
  <2>4. rest \in SUBSET (1..n) /\ m - 1 \in 0..n /\ \A i \in rest : i <= m - 1
    BY <2>2
  <2>5. at[n][rest] = at[m - 1][rest]
    <3> HIDE DEF rest
    <3> QED BY <1>1, <2>4
  <2> DEFINE T == {i \in Nat : i <= m - 1 => at[i][rest] = at[i][s]}
  <2>6. 0 \in T
    BY <1>0, <2>4
  <2>7. ASSUME NEW i \in Nat, i \in T PROVE i + 1 \in T
    <3>1. SUFFICES ASSUME i + 1 <= m - 1 PROVE at[i + 1][rest] = at[i + 1][s]
      OBVIOUS
    <3>2. i + 1 \in 1..n /\ (i + 1) - 1 = i /\ i <= m - 1 /\ i + 1 # m
      BY <2>2, <3>1
    <3>3. at[i][rest] = at[i][s]
      BY <2>7, <3>2
    <3>4. i + 1 \in s <=> i + 1 \in rest
      BY <3>2
    <3> HIDE DEF rest, T
    <3>5. CASE i + 1 \in s
      BY <1>0, <2>4, <3>2, <3>3, <3>4, <3>5
    <3>6. CASE i + 1 \notin s
      <4>1. at[i + 1][rest] = at[i][rest] /\ at[i + 1][s] = at[i][s]
        BY <1>0, <2>4, <3>2, <3>4, <3>6
      <4> QED BY <3>3, <4>1
    <3> QED BY <3>5, <3>6
  <2>8. at[m - 1][rest] = at[m - 1][s]
    <3>1. Nat \subseteq T
      <4> HIDE DEF T
      <4> QED BY <2>6, <2>7, StepByStep
    <3>2. m - 1 \in Nat
      BY <2>2
    <3>3. m - 1 \in T
      BY <3>1, <3>2
    <3> QED BY <3>3
  <2> QED BY <2>1, <2>2, <2>3, <2>5, <2>8
<1> QED BY <1>2, <1>3 DEF EndsWith

IsFold(f, n, D, base, next) ==
  /\ f \in [SUBSET (1..n) -> D]
  /\ f = [s \in SUBSET (1..n) |-> IF s = {} THEN base ELSE next[<<f[s \ {Max(s)}], Max(s)>>]]

\* A fold whose steps stay in a set exists.
LEMMA Folding ==
  ASSUME NEW n \in Nat, NEW D, NEW base \in D, NEW next \in [D \X (1..n) -> D]
  PROVE  \E f : IsFold(f, n, D, base, next)
<1> DEFINE F == [SUBSET (1..n) -> D]
           add == [p \in (1..n) \X F |-> [s \in SUBSET (1..n) |-> IF p[1] \in s THEN next[<<p[2][s], p[1]>>] ELSE p[2][s]]]
           none == [s \in SUBSET (1..n) |-> base]
<1>1. add \in [(1..n) \X F -> F]
  <2>1. ASSUME NEW p \in (1..n) \X F PROVE [s \in SUBSET (1..n) |-> IF p[1] \in s THEN next[<<p[2][s], p[1]>>] ELSE p[2][s]] \in F
    <3>1. p[1] \in 1..n /\ p[2] \in F
      OBVIOUS
    <3>2. \A s \in SUBSET (1..n) : p[2][s] \in D
      BY <3>1
    <3>3. \A s \in SUBSET (1..n) : (IF p[1] \in s THEN next[<<p[2][s], p[1]>>] ELSE p[2][s]) \in D
      BY <3>1, <3>2
    <3> QED BY <3>3
  <2> HIDE DEF F
  <2> QED BY <2>1
<1>2. none \in F
  OBVIOUS
<1>3. PICK at : Follows(at, n, F, none, add)
  <2> HIDE DEF F, add, none
  <2> QED BY <1>1, <1>2, Stepwise
<1>4. at \in [0..n -> F] /\ at[0] = none /\ \A i \in 1..n : at[i] = add[<<i, at[i - 1]>>]
  BY <1>3, Zenon DEF Follows
<1>5. ASSUME NEW i \in 1..n
      PROVE  at[i - 1] \in F /\ \A s \in SUBSET (1..n) : at[i][s] = IF i \in s THEN next[<<at[i - 1][s], i>>] ELSE at[i - 1][s]
  <2>1. i - 1 \in 0..n
    OBVIOUS
  <2>2. at[i - 1] \in F /\ at[i] = add[<<i, at[i - 1]>>]
    BY <1>4, <2>1
  <2>3. at[i] = [s \in SUBSET (1..n) |-> IF i \in s THEN next[<<at[i - 1][s], i>>] ELSE at[i - 1][s]]
    <3> HIDE DEF F
    <3> QED BY <2>2
  <2> QED BY <2>2, <2>3
<1>6. Accumulates(at, n)
  <2>1. \A s, t \in SUBSET (1..n) : at[0][s] = at[0][t]
    BY <1>4
  <2> HIDE DEF F, add, none
  <2>2. \A i \in 1..n, s \in SUBSET (1..n) : i \notin s => at[i][s] = at[i - 1][s]
    BY <1>5
  <2>3. ASSUME NEW i \in 1..n, NEW s \in SUBSET (1..n), NEW t \in SUBSET (1..n), i \in s, i \in t, at[i - 1][s] = at[i - 1][t]
        PROVE  at[i][s] = at[i][t]
    <3>1. at[i][s] = next[<<at[i - 1][s], i>>] /\ at[i][t] = next[<<at[i - 1][t], i>>]
      BY <1>5, <2>3
    <3> QED BY <2>3, <3>1
  <2> QED BY <2>1, <2>2, <2>3 DEF Accumulates
<1> DEFINE f == at[n]
<1>7. f \in F
  BY <1>4
<1>8. ASSUME NEW s \in SUBSET (1..n) PROVE f[s] = IF s = {} THEN base ELSE next[<<f[s \ {Max(s)}], Max(s)>>]
  <2>1. /\ s = {} => at[n][s] = at[0][s]
        /\ s # {} => /\ Max(s) \in s
                     /\ at[n][s] = at[Max(s)][s] /\ at[Max(s) - 1][s] = at[n][s \ {Max(s)}]
    <3> HIDE DEF F, add, none, f
    <3>1. EndsWith(at, n, s)
      BY <1>6, Accumulating
    <3> QED BY <3>1 DEF EndsWith
  <2>2. CASE s = {}
    BY <1>4, <2>1, <2>2
  <2>3. CASE s # {}
    <3>1. PICK m : m = Max(s)
      OBVIOUS
    <3>2. m \in s /\ m \in 1..n /\ at[n][s] = at[m][s] /\ at[m - 1][s] = at[n][s \ {m}]
      BY <2>1, <2>3, <3>1
    <3>3. at[m][s] = next[<<at[m - 1][s], m>>]
      <4> HIDE DEF F
      <4> QED BY <1>5, <3>2
    <3> QED BY <2>3, <3>1, <3>2, <3>3
  <2> QED BY <2>2, <2>3
<1>9. f = [s \in SUBSET (1..n) |-> f[s]]
  BY <1>7
<1> HIDE DEF f, F, add, none
<1>10. f = [s \in SUBSET (1..n) |-> IF s = {} THEN base ELSE next[<<f[s \ {Max(s)}], Max(s)>>]]
  BY <1>8, <1>9
<1> QED BY <1>7, <1>10 DEF F, IsFold

\* Lists of two sets that have no element in common, laid end to end.
LEMMA ListsJoin ==
  ASSUME NEW A, NEW B, A \cap B = {}, NEW a, Lists(a, A), NEW b, Lists(b, B)
  PROVE  Lists(a \o b, A \cup B)
<1> DEFINE S == A \cup B
           c == a \o b
           i == Cardinality(A)
           j == Cardinality(B)
<1>1. IsFiniteSet(A) /\ IsFiniteSet(B) /\ i \in Nat /\ j \in Nat
  BY FS_CardinalityType DEF Lists
<1>2. IsFiniteSet(S) /\ Cardinality(S) = i + j
  <2>1. Cardinality({}) = 0
    BY FS_EmptySet
  <2>2. IsFiniteSet(A \cup B) /\ Cardinality(A \cup B) = Cardinality(A) + Cardinality(B) - Cardinality({})
    BY <1>1, FS_Union
  <2> QED BY <1>1, <2>1, <2>2
<1>3. a \in Seq(S) /\ b \in Seq(S) /\ Len(a) = i /\ Len(b) = j
  BY DEF Lists
<1>4. c \in Seq(S) /\ Len(c) = i + j
  BY <1>3
<1>5. /\ \A n \in 1..i : c[n] = a[n]
      /\ \A n \in 1..j : i + n \in 1..(i + j) /\ c[i + n] = b[n]
  BY <1>1, <1>3
<1> HIDE DEF c
<1>6. ASSUME NEW x \in S PROVE \E n \in 1..Cardinality(S) : c[n] = x
  <2>1. CASE x \in A
    <3>1. PICK n \in 1..i : a[n] = x
      BY <2>1, Zenon DEF Lists, Range
    <3> QED BY <1>1, <1>2, <1>5, <3>1
  <2>2. CASE x \in B
    <3>1. PICK n \in 1..j : b[n] = x
      BY <2>2, Zenon DEF Lists, Range
    <3> QED BY <1>1, <1>2, <1>5, <3>1
  <2> QED BY <2>1, <2>2
<1>7. c \in [1..Cardinality(S) -> S]
  <2>1. c \in [1..Len(c) -> S]
    BY <1>4, LenProperties
  <2> QED BY <1>2, <1>4, <2>1
<1> HIDE DEF S
<1>8. Lists(c, S)
  BY <1>2, <1>6, <1>7, ListsBy
<1> QED BY <1>8 DEF S, c

IsList(list) == list \in Seq(Range(list))

\* A function on the first numbers is a list of its values.
LEMMA ListIs ==
  ASSUME NEW n \in Nat, NEW list, DOMAIN list = 1..n, list = [i \in 1..n |-> list[i]]
  PROVE  /\ IsList(list) /\ Len(list) = n
         /\ \A e : e \in Range(list) <=> \E i \in 1..n : list[i] = e
<1>1. \A e : e \in Range(list) <=> \E i \in 1..n : list[i] = e
  BY Zenon DEF Range
<1>2. \A i \in 1..n : list[i] \in Range(list)
  BY <1>1
<1> HIDE DEF Range
<1>3. list \in [1..n -> Range(list)]
  BY <1>2
<1>4. list \in Seq(Range(list)) /\ Len(list) = n
  BY <1>3
<1> QED BY <1>1, <1>4 DEF IsList

\* A list, by its positions.
LEMMA IsListMeans ==
  ASSUME NEW list, IsList(list)
  PROVE  /\ Len(list) \in Nat /\ DOMAIN list = 1..Len(list) /\ list = [i \in 1..Len(list) |-> list[i]]
         /\ \A e : e \in Range(list) <=> \E i \in 1..Len(list) : list[i] = e
<1>1. /\ list \in Seq(Range(list)) /\ Len(list) \in Nat /\ DOMAIN list = 1..Len(list)
      /\ \A e : e \in Range(list) <=> \E i \in 1..Len(list) : list[i] = e
  <2>1. PICK S : S = Range(list)
    OBVIOUS
  <2>2. list \in Seq(S)
    BY <2>1 DEF IsList
  <2>3. /\ Len(list) \in Nat /\ DOMAIN list = 1..Len(list)
        /\ \A e : e \in Range(list) <=> \E i \in 1..Len(list) : list[i] = e
    BY <2>2, OverItsRange
  <2> QED BY <2>1, <2>2, <2>3
<1>2. list = [i \in 1..Len(list) |-> list[i]]
  <2>1. PICK S : S = Range(list)
    OBVIOUS
  <2>2. list \in [1..Len(list) -> S]
    BY <1>1, <2>1, LenProperties
  <2> QED BY <2>2
<1> QED BY <1>1, <1>2

\* A list over any set is a list.
LEMMA SeqIsList ==
  ASSUME NEW S, NEW list \in Seq(S)
  PROVE  IsList(list) /\ \A i \in 1..Len(list) : list[i] \in S
<1>1. list \in Seq(Range(list))
  BY OverItsRange
<1> QED BY <1>1 DEF IsList

\* A list whose entries are in a set is one over it.
LEMMA ListOver ==
  ASSUME NEW S, NEW list, IsList(list), \A i \in 1..Len(list) : list[i] \in S
  PROVE  list \in Seq(S)
<1>1. /\ Len(list) \in Nat /\ list = [i \in 1..Len(list) |-> list[i]]
  BY IsListMeans
<1>2. list \in [1..Len(list) -> S]
  BY <1>1
<1> QED BY <1>1, <1>2

\* Lists laid end to end: every entry is one of theirs.
LEMMA Flattening ==
  ASSUME NEW ss, IsList(ss), \A i \in 1..Len(ss) : IsList(ss[i])
  PROVE  /\ IsList(FlattenSeq(ss))
         /\ \A e \in Range(FlattenSeq(ss)) : \E i \in 1..Len(ss) : e \in Range(ss[i])
<1> DEFINE E == UNION {Range(ss[i]) : i \in 1..Len(ss)}
<1>1. Len(ss) \in Nat /\ ss = [i \in 1..Len(ss) |-> ss[i]] /\ DOMAIN ss = 1..Len(ss)
  BY IsListMeans
<1>2. \A i \in 1..Len(ss) : Range(ss[i]) \subseteq E
  <2> HIDE DEF Range
  <2> QED OBVIOUS
<1>3. \A e \in E : \E i \in 1..Len(ss) : e \in Range(ss[i])
  <2> HIDE DEF Range
  <2> QED OBVIOUS
<1> HIDE DEF E
<1>4. ASSUME NEW i \in 1..Len(ss) PROVE ss[i] \in Seq(E)
  <2>1. PICK R : R = Range(ss[i])
    OBVIOUS
  <2>2. ss[i] \in Seq(R) /\ R \subseteq E
    BY <1>2, <2>1 DEF IsList
  <2> QED BY <2>2
<1>5. ss \in Seq(Seq(E))
  <2>1. PICK n \in Nat : n = Len(ss)
    BY <1>1
  <2>2. ss \in [1..n -> Seq(E)]
    BY <1>1, <1>4, <2>1
  <2> QED BY <2>2
<1>6. FlattenSeq(ss) \in Seq(E)
  <2>1. CASE Len(ss) = 0
    <3>1. FlattenSeq(ss) = ss /\ ss = << >>
      <4>1. FlattenSeq(ss) = ss
        BY <2>1, Zenon DEF FlattenSeq
      <4>2. ss = << >>
        BY <1>5, <2>1
      <4> QED BY <4>1, <4>2
    <3> QED BY <3>1
  <2>2. CASE Len(ss) # 0
    <3>1. Len(ss) > 0 /\ Len(ss) \in 1..Len(ss)
      BY <1>1, <2>2
    <3>2. \E f : /\ FlattenSeq(ss) = f[Len(ss)] /\ f[1] = ss[1]
                 /\ \A k \in 2..Len(ss) : f[k] = f[k - 1] \o ss[k]
                 /\ \A k \in 1..Len(ss) : f[k] \in Seq(E)
      BY <1>5, <3>1, FlattenSteps
    <3> QED BY <3>1, <3>2
  <2> QED BY <2>1, <2>2
<1>7. PICK flat : flat = FlattenSeq(ss)
  OBVIOUS
<1>8. flat \in Seq(E)
  BY <1>6, <1>7
<1>9. IsList(flat) /\ Range(flat) \subseteq E
  BY <1>8, OverItsRange DEF IsList
<1> QED BY <1>3, <1>7, <1>9

\* What a list lists is finite.
LEMMA RangeIsFinite ==
  ASSUME NEW list, IsList(list)
  PROVE  IsFiniteSet(Range(list))
<1>1. list \in [1..Len(list) -> Range(list)] /\ Len(list) \in Nat /\ \A x \in Range(list) : \E i \in 1..Len(list) : list[i] = x
  <2>1. Len(list) \in Nat /\ DOMAIN list = 1..Len(list) /\ list = [i \in 1..Len(list) |-> list[i]] /\ \A i \in 1..Len(list) : list[i] \in Range(list)
    BY IsListMeans
  <2>2. \A x \in Range(list) : \E i \in 1..Len(list) : list[i] = x
    BY <2>1 DEF Range
  <2> HIDE DEF Range
  <2> QED BY <2>1, <2>2
<1>2. IsFiniteSet(1..Len(list))
  <2>1. Len(list) \in Int /\ 1 \in Int
    BY IsListMeans
  <2> QED BY <2>1, FS_Interval
<1>3. list \in Surjection(1..Len(list), Range(list))
  <2> HIDE DEF Range
  <2> QED BY <1>1 DEF Surjection
<1> QED BY <1>2, <1>3, FS_Surjection

\* Sets that have nothing in common.
LEMMA DisjointUnion ==
  ASSUME NEW S, NEW T, IsFiniteSet(S), IsFiniteSet(T), S \cap T = {}
  PROVE  Cardinality(S \cup T) = Cardinality(S) + Cardinality(T)
<1>1. Cardinality(S \cup T) = Cardinality(S) + Cardinality(T) - Cardinality(S \cap T)
  BY FS_Union
<1>2. Cardinality(S \cap T) = 0 /\ Cardinality(S) \in Nat /\ Cardinality(T) \in Nat
  BY FS_EmptySet, FS_CardinalityType
<1> QED BY <1>1, <1>2

\* How many of some positions come no later than e.
CountTo(P, e) == Cardinality({x \in P : x <= e})

\* How many of the first positions hold, at a later one that does.
LEMMA CountGrows ==
  ASSUME NEW n \in Nat, NEW P \in SUBSET (1..n), NEW e \in P, NEW f \in P, e < f
  PROVE  CountTo(P, e) # CountTo(P, f)
<1> DEFINE A == {x \in P : x <= e}
           B == {x \in P : x <= f}
<1>1. IsFiniteSet(1..n)
  BY FS_Interval
<1>2. IsFiniteSet(B)
  <2>1. B \in SUBSET (1..n)
    OBVIOUS
  <2> QED BY <1>1, <2>1, FS_Subset
<1>3. A \subseteq B /\ f \in B /\ f \notin A
  <2>1. e \in 1..n /\ f \in 1..n /\ \A x \in P : x \in 1..n
    OBVIOUS
  <2>2. \A x \in 1..n : x <= e => x <= f
    BY <2>1
  <2>3. A \subseteq B
    BY <2>1, <2>2
  <2> QED BY <2>1, <2>3
<1>4. A # B
  BY <1>3
<1> HIDE DEF A, B
<1>5. /\ IsFiniteSet(A) /\ Cardinality(A) <= Cardinality(B)
      /\ Cardinality(A) = Cardinality(B) => A = B
  BY <1>2, <1>3, FS_Subset
<1>6. Cardinality(A) \in Nat /\ Cardinality(B) \in Nat
  BY <1>2, <1>5, FS_CardinalityType
<1>7. Cardinality(A) < Cardinality(B)
  BY <1>4, <1>5, <1>6
<1> QED BY <1>6, <1>7 DEF A, B, CountTo

\* A stretch of a list holds as many elements as it is long.
LEMMA Stretches ==
  ASSUME NEW S, NEW list, Lists(list, S), NEW a \in Nat, NEW b \in Nat, 1 <= a, a <= b + 1, b <= Cardinality(S)
  PROVE  /\ Range(SubSeq(list, a, b)) = {list[i] : i \in a..b} /\ Range(SubSeq(list, a, b)) \subseteq S
         /\ IsFiniteSet(Range(SubSeq(list, a, b))) /\ Cardinality(Range(SubSeq(list, a, b))) = (b - a) + 1
<1> DEFINE k == Cardinality(S)
           part == SubSeq(list, a, b)
           image == {list[i] : i \in a..b}
           at == [i \in a..b |-> list[i]]
<1>1. /\ k \in Nat /\ list \in [1..k -> S] /\ \A m, n \in 1..k : list[m] = list[n] => m = n
      /\ IsFiniteSet(S)
  BY FS_CardinalityType DEF Lists
<1>2. \A i \in a..b : i \in 1..k /\ list[i] \in S
  BY <1>1
<1>3. /\ part \in Seq(S) /\ Len(part) = IF a <= b THEN b - a + 1 ELSE 0
      /\ \A i \in 1..(b - a + 1) : part[i] = list[a + i - 1]
  <2>1. a \in Int /\ b \in Int /\ \A i \in a..b : list[i] \in S
    BY <1>2
  <2> QED BY <2>1, SubSeqProperties
<1> HIDE DEF part
<1>4. Len(part) = (b - a) + 1 /\ DOMAIN part = 1..((b - a) + 1)
  BY <1>3, LenProperties
<1>5. ASSUME NEW x PROVE x \in Range(part) <=> x \in image
  <2>1. ASSUME x \in Range(part) PROVE x \in image
    <3>1. PICK i \in 1..((b - a) + 1) : part[i] = x
      BY <1>4, <2>1, Zenon DEF Range
    <3>2. part[i] = list[a + i - 1] /\ a + i - 1 \in a..b
      BY <1>3
    <3> QED BY <3>1, <3>2
  <2>2. ASSUME x \in image PROVE x \in Range(part)
    <3>1. PICK i \in a..b : list[i] = x
      BY <2>2
    <3>2. (i - a) + 1 \in 1..((b - a) + 1) /\ (i - a) + 1 \in 1..(b - a + 1) /\ a + ((i - a) + 1) - 1 = i
      BY <3>1
    <3>3. part[(i - a) + 1] = x
      BY <1>3, <3>1, <3>2
    <3> QED BY <1>4, <3>2, <3>3, Zenon DEF Range
  <2> QED BY <2>1, <2>2
<1>6. Range(part) = image
  <2> HIDE DEF image, Range
  <2> QED BY <1>5
<1>7. image \in SUBSET S
  BY <1>2
<1>8. IsFiniteSet(a..b) /\ Cardinality(a..b) = (b - a) + 1
  <2>1. a \in Int /\ b \in Int
    OBVIOUS
  <2>2. IsFiniteSet(a..b) /\ Cardinality(a..b) = IF a > b THEN 0 ELSE b - a + 1
    BY <2>1, FS_Interval
  <2> QED BY <2>2
<1>9. at \in Injection(a..b, image) /\ at \in Surjection(a..b, image)
  <2>1. at \in [a..b -> image] /\ DOMAIN at = a..b
    OBVIOUS
  <2>2. \A i, j \in a..b : at[i] = at[j] => i = j
    BY <1>1, <1>2
  <2>3. \A x \in image : \E i \in a..b : at[i] = x
    BY Zenon
  <2> HIDE DEF at, image
  <2> QED BY <2>1, <2>2, <2>3, Zenon DEF Injection, Surjection, IsInjective
<1>10. IsFiniteSet(image) /\ Cardinality(image) = (b - a) + 1
  <2> HIDE DEF at, image
  <2>1. /\ IsFiniteSet(image)
        /\ Cardinality(image) = Cardinality(a..b) <=> at \in Injection(a..b, image)
    BY <1>8, <1>9, FS_Surjection
  <2> QED BY <1>8, <1>9, <2>1
<1> QED BY <1>6, <1>7, <1>10 DEF part

-----------------------------------------------------------------------------
(* Forests whose trees are united.                                         *)

\* Each of n nodes hangs d below the root of its tree.
Hangs(parent, n, root, d) ==
  /\ parent \in [1..n -> 1..n] /\ root \in [1..n -> 1..n] /\ d \in [1..n -> Nat]
  /\ \A x \in 1..n : d[x] = 0 => parent[x] = x /\ root[x] = x
  /\ \A x \in 1..n : d[x] # 0 => d[parent[x]] = d[x] - 1 /\ root[parent[x]] = root[x]
  /\ \A x \in 1..n : d[root[x]] = 0

\* No tree is deeper than there are nodes.
LEMMA DepthIsBelow ==
  ASSUME NEW n \in Nat, NEW parent, NEW root, NEW d, Hangs(parent, n, root, d), NEW x \in 1..n
  PROVE  d[x] < n
<1> DEFINE T == {k \in Nat : k <= d[x] => \E y \in 1..n : d[y] = d[x] - k}
<1>1. d[x] \in Nat /\ \A y \in 1..n : d[y] \in Nat /\ parent[y] \in 1..n
  BY DEF Hangs
<1>2. 0 \in T
  BY <1>1
<1>3. ASSUME NEW k \in Nat, k \in T PROVE k + 1 \in T
  <2>1. SUFFICES ASSUME k + 1 <= d[x] PROVE \E y \in 1..n : d[y] = d[x] - (k + 1)
    OBVIOUS
  <2>2. PICK y \in 1..n : d[y] = d[x] - k
    BY <1>1, <1>3, <2>1
  <2>3. d[parent[y]] = d[y] - 1
    BY <1>1, <2>1, <2>2 DEF Hangs
  <2> QED BY <1>1, <2>2, <2>3
<1>4. Nat \subseteq T
  <2> HIDE DEF T
  <2> QED BY <1>2, <1>3, StepByStep
<1>5. ASSUME NEW k \in 0..d[x] PROVE k \in {d[y] : y \in 1..n}
  <2>1. d[x] - k \in T /\ d[x] - k <= d[x]
    BY <1>1, <1>4
  <2>2. \E y \in 1..n : d[y] = d[x] - (d[x] - k)
    BY <2>1
  <2> QED BY <1>1, <2>2
<1> DEFINE I == {d[y] : y \in 1..n}
<1>6. IsFiniteSet(1..n) /\ Cardinality(1..n) = n
  BY FS_Interval
<1>7. IsFiniteSet(I) /\ Cardinality(I) <= n
  <2>1. d \in [1..n -> I] /\ \A t \in I : \E y \in 1..n : d[y] = t
    BY DEF Hangs
  <2> HIDE DEF I
  <2>2. d \in Surjection(1..n, I)
    BY <2>1 DEF Surjection
  <2> QED BY <1>6, <2>2, FS_Surjection
<1>8. 0..d[x] \in SUBSET I
  BY <1>5
<1> HIDE DEF I
<1>9. Cardinality(0..d[x]) <= Cardinality(I) /\ Cardinality(I) \in Nat
  BY <1>7, <1>8, FS_Subset, FS_CardinalityType
<1>10. Cardinality(0..d[x]) = d[x] + 1
  <2>1. PICK k \in Nat : k = d[x]
    BY <1>1
  <2>2. Cardinality(0..k) = IF 0 > k THEN 0 ELSE k - 0 + 1
    BY FS_Interval
  <2> QED BY <2>1, <2>2
<1> QED BY <1>1, <1>7, <1>9, <1>10

\* The first m edges join what has one root and nothing else.
EndsIn(edges, m, n) == \A i \in 1..m : edges[i].from \in 1..n /\ edges[i].to \in 1..n

Crossed(edges, m, part) ==
  \E i \in 1..m : {edges[i].from, edges[i].to} \cap part # {} /\ {edges[i].from, edges[i].to} \ part # {}

Joins(edges, m, n, root) ==
  /\ \A i \in 1..m : root[edges[i].from] = root[edges[i].to]
  /\ \A k \in 1..n, part \in SUBSET (1..n) :
       /\ part # {} /\ \A x \in part : root[x] = k
       /\ \E x \in 1..n : root[x] = k /\ x \notin part
       => Crossed(edges, m, part)

Unites(parent, n, edges, m) == \E root, d : Hangs(parent, n, root, d) /\ Joins(edges, m, n, root)

\* Before any edge, every node is by itself.
LEMMA ForestBegins ==
  ASSUME NEW n \in Nat, NEW edges
  PROVE  Unites([x \in 1..n |-> x], n, edges, 0)
<1> DEFINE root == [x \in 1..n |-> x]
           d == [x \in 1..n |-> 0]
<1>1. Hangs(root, n, root, d)
  BY DEF Hangs
<1>2. Joins(edges, 0, n, root)
  <2>1. \A x \in 1..n : root[x] = x
    OBVIOUS
  <2> HIDE DEF root
  <2>2. ASSUME NEW k \in 1..n, NEW part \in SUBSET (1..n), part # {}, \A x \in part : root[x] = k,
               NEW y \in 1..n, root[y] = k, y \notin part
        PROVE  FALSE
    <3>1. PICK x \in part : TRUE
      BY <2>2
    <3>2. x = k /\ y = k
      BY <2>1, <2>2
    <3> QED BY <2>2, <3>1, <3>2
  <2>3. 1..0 = {}
    OBVIOUS
  <2> QED BY <2>2, <2>3 DEF Joins
<1> HIDE DEF root, d
<1>3. Unites(root, n, edges, 0)
  BY <1>1, <1>2, Zenon DEF Unites
<1> QED BY <1>3 DEF root

\* One root hangs below another, whose nodes all have the other root.
Lowered(p, parent, n, low, high) ==
  p \in [1..n -> 1..n] /\ p[low] = high /\ \A x \in 1..n : x # low => p[x] = parent[x]
Renamed(r, root, n, low, high) ==
  r \in [1..n -> 1..n] /\ \A x \in 1..n : r[x] = IF root[x] = low THEN high ELSE root[x]

\* Hanging one root below another joins their trees.
LEMMA TreesJoin ==
  ASSUME NEW n \in Nat, NEW parent, NEW root, NEW d, Hangs(parent, n, root, d),
         NEW low \in 1..n, NEW high \in 1..n, root[low] = low, root[high] = high, low # high,
         NEW p, Lowered(p, parent, n, low, high), NEW r, Renamed(r, root, n, low, high)
  PROVE  \E e : Hangs(p, n, r, e)
<1>1. /\ parent \in [1..n -> 1..n] /\ root \in [1..n -> 1..n] /\ d \in [1..n -> Nat]
      /\ \A x \in 1..n : d[x] = 0 => parent[x] = x /\ root[x] = x
      /\ \A x \in 1..n : d[x] # 0 => d[parent[x]] = d[x] - 1 /\ root[parent[x]] = root[x]
      /\ \A x \in 1..n : d[root[x]] = 0
  BY DEF Hangs
<1>2. d[low] = 0 /\ d[high] = 0
  BY <1>1
<1>5. PICK e : e = [x \in 1..n |-> IF root[x] = low THEN d[x] + 1 ELSE d[x]]
  OBVIOUS
<1>6. p \in [1..n -> 1..n] /\ p[low] = high /\ \A x \in 1..n : x # low => p[x] = parent[x]
  BY DEF Lowered
<1>7. r \in [1..n -> 1..n] /\ \A x \in 1..n : r[x] = IF root[x] = low THEN high ELSE root[x]
  BY DEF Renamed
<1>8. e \in [1..n -> Nat] /\ \A x \in 1..n : e[x] = IF root[x] = low THEN d[x] + 1 ELSE d[x]
  <2>1. \A x \in 1..n : d[x] \in Nat /\ d[x] + 1 \in Nat
    <3>1. d \in [1..n -> Nat]
      BY <1>1
    <3> QED BY <3>1
  <2>2. \A x \in 1..n : (IF root[x] = low THEN d[x] + 1 ELSE d[x]) \in Nat
    BY <2>1
  <2> QED BY <1>5, <2>2
<1>9. ASSUME NEW x \in 1..n PROVE /\ e[x] = 0 => p[x] = x /\ r[x] = x
                                  /\ e[x] # 0 => e[p[x]] = e[x] - 1 /\ r[p[x]] = r[x]
                                  /\ e[r[x]] = 0
  <2>1. d[x] \in Nat /\ root[x] \in 1..n /\ parent[x] \in 1..n
    BY <1>1
  <2>2. e[high] = 0 /\ r[high] = high
    BY <1>2, <1>7, <1>8
  <2>3. CASE root[x] = low
    <3>1. e[x] = d[x] + 1 /\ r[x] = high
      BY <1>7, <1>8, <2>3
    <3>2. CASE d[x] = 0
      <4>1. x = low
        BY <1>1, <2>3, <3>2
      <4> QED BY <1>6, <2>2, <3>1, <3>2, <4>1
    <3>3. CASE d[x] # 0
      <4>1. x # low /\ p[x] = parent[x] /\ root[parent[x]] = low /\ d[parent[x]] = d[x] - 1
        BY <1>1, <1>2, <1>6, <2>3, <3>3
      <4>2. e[parent[x]] = d[parent[x]] + 1 /\ r[parent[x]] = high
        BY <1>7, <1>8, <2>1, <4>1
      <4> QED BY <2>1, <2>2, <3>1, <4>1, <4>2
    <3> QED BY <3>2, <3>3
  <2>4. CASE root[x] # low
    <3>1. e[x] = d[x] /\ r[x] = root[x] /\ x # low /\ p[x] = parent[x]
      BY <1>6, <1>7, <1>8, <2>4
    <3>2. d[x] # 0 => root[parent[x]] # low /\ e[parent[x]] = d[parent[x]] /\ r[parent[x]] = root[parent[x]]
      BY <1>1, <1>7, <1>8, <2>1, <2>4
    <3>3. e[root[x]] = 0
      <4>1. root[root[x]] = root[x]
        BY <1>1, <2>1
      <4> QED BY <1>1, <1>8, <2>1, <2>4, <4>1
    <3> QED BY <1>1, <3>1, <3>2, <3>3
  <2> QED BY <2>3, <2>4
<1>10. Hangs(p, n, r, e)
  BY <1>6, <1>7, <1>8, <1>9 DEF Hangs
<1> QED BY <1>10

\* It joins the classes of the edge's ends, and no others.
LEMMA ClassesJoin ==
  ASSUME NEW n \in Nat, NEW edges, NEW m \in Nat, NEW root \in [1..n -> 1..n], Joins(edges, m, n, root),
         NEW u \in 1..n, NEW v \in 1..n, {u, v} = {edges[m + 1].from, edges[m + 1].to},
         EndsIn(edges, m, n),
         root[u] # root[v], NEW r, Renamed(r, root, n, root[u], root[v])
  PROVE  Joins(edges, m + 1, n, r)
<1>2. \A x \in 1..n : r[x] = IF root[x] = root[u] THEN root[v] ELSE root[x]
  BY DEF Renamed
<1>3. 1..(m + 1) = 1..m \cup {m + 1}
  OBVIOUS
<1>4. \A i \in 1..(m + 1) : r[edges[i].from] = r[edges[i].to]
  <2>1. \A i \in 1..m : r[edges[i].from] = r[edges[i].to]
    BY <1>2 DEF Joins, EndsIn
  <2>2. r[u] = r[v]
    BY <1>2
  <2>3. r[edges[m + 1].from] = r[edges[m + 1].to]
    BY <2>2
  <2> QED BY <1>3, <2>1, <2>3
<1>5. ASSUME NEW k \in 1..n, NEW part \in SUBSET (1..n), part # {}, \A x \in part : r[x] = k,
             NEW y \in 1..n, r[y] = k, y \notin part
      PROVE  Crossed(edges, m + 1, part)
  <2>1. \A q \in SUBSET (1..n) : Crossed(edges, m, q) /\ (\A i \in 1..m : edges[i].from \in q \/ edges[i].to \in q => (edges[i].from \in part <=> edges[i].from \in q) /\ (edges[i].to \in part <=> edges[i].to \in q))
           => Crossed(edges, m + 1, part)
    BY <1>3 DEF Crossed
  <2>2. ASSUME NEW x \in part, NEW z \in 1..n, z \notin part, root[z] = root[x] PROVE Crossed(edges, m + 1, part)
    <3>1. PICK q : q = {w \in part : root[w] = root[x]}
      OBVIOUS
    <3>2. q \in SUBSET (1..n) /\ x \in q /\ (\A w \in q : root[w] = root[x]) /\ z \notin q
      BY <2>2, <3>1
    <3>3. root[x] \in 1..n
      OBVIOUS
    <3>4. Crossed(edges, m, q)
      BY <2>2, <3>2, <3>3 DEF Joins
    <3>5. \A i \in 1..m : root[edges[i].from] = root[edges[i].to]
      BY DEF Joins
    <3>6. \A i \in 1..m : edges[i].from \in q \/ edges[i].to \in q
             => (edges[i].from \in part <=> edges[i].from \in q) /\ (edges[i].to \in part <=> edges[i].to \in q)
      BY <3>1, <3>5
    <3> QED BY <2>1, <3>2, <3>4, <3>6
  <2>3. ASSUME \A x \in part, z \in 1..n : root[z] = root[x] => z \in part PROVE Crossed(edges, m + 1, part)
    <3>1. PICK x \in part : TRUE
      BY <1>5
    <3>2. r[x] = k /\ root[x] # root[y]
      BY <1>5, <2>3
    <3>3. {root[x], root[y]} = {root[u], root[v]}
      BY <1>2, <1>5, <3>2
    <3>4. \/ u \in part /\ v \notin part
          \/ v \in part /\ u \notin part
      <4>1. ASSUME NEW z \in 1..n, root[z] = root[y] PROVE z \notin part
        BY <1>5, <2>3, <4>1
      <4> QED BY <2>3, <3>3, <4>1
    <3>5. m + 1 \in 1..(m + 1)
      OBVIOUS
    <3> QED BY <3>4, <3>5 DEF Crossed
  <2> QED BY <2>2, <2>3
<1>6. Joins(edges, m + 1, n, r)
  BY <1>4, <1>5 DEF Joins
<1> QED BY <1>6

-----------------------------------------------------------------------------
(* Labels, given out in the order of what they are given to.               *)

\* The labels of the first m values: each value once, the labels before it
\* given to earlier ones.
Labels(l, values, m) ==
  /\ IsList(l)
  /\ \A i, j \in 1..Len(l) : l[i] = l[j] => i = j
  /\ \A i \in 1..m : \E j \in 1..Len(l) : l[j] = values[i]
  /\ \A j \in 1..Len(l) : \E i \in 1..m : l[j] = values[i]
  /\ \A i \in 1..m, j \in 1..Len(l) : l[j] = values[i] => j = 1 \/ \E h \in 1..(i - 1) : values[h] = l[j - 1]

\* A label is one of those given out, to nodes of one tree only.
LabelsOf(label, n, l, root) ==
  /\ label = [x \in 1..n |-> label[x]]
  /\ root \in [1..n -> 1..n] /\ Labels(l, root, n)
  /\ \A x \in 1..n : label[x] \in 1..Len(l) /\ l[label[x]] = root[x]

AreLabels(label, n, edges) == \E l, root : LabelsOf(label, n, l, root) /\ Joins(edges, Len(edges), n, root)

\* Two labels are one only where the values are; a label before another's is
\* given to an earlier value.
LEMMA LabelsFollow ==
  ASSUME NEW label, NEW n \in Nat, NEW l, NEW root, LabelsOf(label, n, l, root), NEW x \in 1..n
  PROVE  /\ \A y \in 1..n : label[x] = label[y] <=> root[x] = root[y]
         /\ label[x] \in 1..Len(l)
         /\ label[x] = 1 \/ \E h \in 1..(x - 1) : label[h] = label[x] - 1
<1>1. PICK k \in Nat : k = Len(l)
  BY IsListMeans DEF LabelsOf, Labels
<1>2. \A i, j \in 1..k : l[i] = l[j] => i = j
  BY <1>1 DEF LabelsOf, Labels
<1>3. \A y \in 1..n : label[y] \in 1..k /\ l[label[y]] = root[y]
  BY <1>1 DEF LabelsOf
<1>4. \A y \in 1..n : label[x] = label[y] <=> root[x] = root[y]
  BY <1>2, <1>3
<1>5. label[x] = 1 \/ \E h \in 1..(x - 1) : root[h] = l[label[x] - 1]
  BY <1>1, <1>3 DEF LabelsOf, Labels
<1>6. ASSUME label[x] # 1, NEW h \in 1..(x - 1), root[h] = l[label[x] - 1]
      PROVE  label[h] = label[x] - 1
  <2>1. h \in 1..n
    OBVIOUS
  <2>2. label[x] - 1 \in 1..k
    BY <1>3, <1>6
  <2>3. label[h] \in 1..k /\ l[label[h]] = root[h]
    BY <1>3, <2>1
  <2> QED BY <1>2, <1>6, <2>2, <2>3
<1> QED BY <1>1, <1>3, <1>4, <1>5, <1>6

-----------------------------------------------------------------------------
(* Spreading along the links of a graph.                                   *)

\* No state of the cell outside S continues into S or follows it.
KeepsIn(graph, cell, S) ==
  S \subseteq cell /\ \A e \in S, f \in cell : <<e, f>> \in graph.linked => f \in S

\* Step by step, to what is linked to some state of the set.
Spreads(r, graph, cell, from) ==
  /\ r[0] = from
  /\ \A n \in 1..Cardinality(cell) : r[n] = r[n - 1] \cup {x \in cell : \E e \in r[n - 1] : <<e, x>> \in graph.linked}

LEMMA Spreading ==
  ASSUME NEW cell, IsFiniteSet(cell), NEW from \in SUBSET cell, NEW graph
  PROVE  \E r \in [0..Cardinality(cell) -> SUBSET cell] : Spreads(r, graph, cell, from)
<1> DEFINE beside(s) == {x \in cell : \E e \in s : <<e, x>> \in graph.linked}
           next == [p \in (1..Cardinality(cell)) \X SUBSET cell |-> p[2] \cup beside(p[2])]
<1>1. PICK k \in Nat : k = Cardinality(cell)
  BY FS_CardinalityType
<1>2. next \in [(1..k) \X SUBSET cell -> SUBSET cell]
  BY <1>1
<1>3. PICK f : Follows(f, k, SUBSET cell, from, next)
  <2> HIDE DEF next
  <2> QED BY <1>2, Stepwise
<1>4. f \in [0..k -> SUBSET cell] /\ f[0] = from /\ \A v \in 1..k : f[v] = next[<<v, f[v - 1]>>]
  BY <1>3, Zenon DEF Follows
<1>5. \A v \in 1..k : f[v] = f[v - 1] \cup beside(f[v - 1])
  <2> HIDE DEF beside
  <2>1. SUFFICES ASSUME NEW v \in 1..k PROVE f[v] = f[v - 1] \cup beside(f[v - 1])
    OBVIOUS
  <2>2. f[v - 1] \in SUBSET cell
    BY <1>4
  <2> QED BY <1>1, <1>4, <2>2
<1> QED BY <1>1, <1>4, <1>5 DEF Spreads

\* As many steps as there are states reach the least set around the sources
\* that nothing leaves.
LEMMA SpreadingKeeps ==
  ASSUME NEW cell, IsFiniteSet(cell), NEW from \in SUBSET cell, NEW graph, NEW r, Spreads(r, graph, cell, from)
  PROVE  /\ from \subseteq r[Cardinality(cell)] /\ KeepsIn(graph, cell, r[Cardinality(cell)])
         /\ \A D : KeepsIn(graph, cell, D) /\ from \subseteq D => r[Cardinality(cell)] \subseteq D
<1> DEFINE k == Cardinality(cell)
           beside(s) == {x \in cell : \E e \in s : <<e, x>> \in graph.linked}
<1>1. IsFiniteSet(cell) /\ k \in Nat
  BY FS_CardinalityType
<1>2. r[0] = from /\ \A n \in 1..k : r[n] = r[n - 1] \cup beside(r[n - 1])
  BY Zenon DEF Spreads
<1> HIDE DEF k
<1> DEFINE Good(n) == /\ r[n] \in SUBSET cell /\ from \subseteq r[n]
                      /\ Cardinality(r[n]) >= Cardinality(from) + n \/ KeepsIn(graph, cell, r[n])
                      /\ \A D : KeepsIn(graph, cell, D) /\ from \subseteq D => r[n] \subseteq D
           T == {n \in Nat : n <= k => Good(n)}
<1>3. 0 \in T
  <2>1. Cardinality(from) \in Nat
    BY <1>1, FS_Subset, FS_CardinalityType
  <2> QED BY <1>2, <2>1
<1>4. ASSUME NEW n \in Nat, n \in T PROVE n + 1 \in T
  <2>1. SUFFICES ASSUME n + 1 <= k PROVE Good(n + 1)
    OBVIOUS
  <2>2. Good(n) /\ r[n + 1] = r[n] \cup beside(r[n])
    <3>1. n <= k /\ n + 1 \in 1..k /\ (n + 1) - 1 = n
      BY <1>1, <2>1
    <3> QED BY <1>2, <1>4, <3>1
  <2>3. \A x : x \in beside(r[n]) <=> x \in cell /\ \E e \in r[n] : <<e, x>> \in graph.linked
    OBVIOUS
  <2>4. r[n + 1] \in SUBSET cell /\ from \subseteq r[n + 1]
    BY <2>2, <2>3
  <2>5. \A D : KeepsIn(graph, cell, D) /\ from \subseteq D => r[n + 1] \subseteq D
    BY <2>2, <2>3 DEF KeepsIn
  <2>6. Cardinality(r[n + 1]) >= Cardinality(from) + (n + 1) \/ KeepsIn(graph, cell, r[n + 1])
    <3>1. CASE KeepsIn(graph, cell, r[n])
      <4>1. r[n + 1] = r[n]
        BY <2>2, <2>3, <3>1 DEF KeepsIn
      <4> QED BY <3>1, <4>1
    <3>2. CASE ~KeepsIn(graph, cell, r[n])
      <4>1. r[n + 1] # r[n]
        <5>1. PICK e \in r[n], f \in cell : <<e, f>> \in graph.linked /\ f \notin r[n]
          BY <2>2, <3>2 DEF KeepsIn
        <5>2. f \in beside(r[n])
          BY <2>3, <5>1
        <5> QED BY <2>2, <5>1, <5>2
      <4>2. /\ IsFiniteSet(r[n + 1]) /\ r[n] \in SUBSET r[n + 1] /\ IsFiniteSet(r[n])
            /\ Cardinality(r[n]) \in Nat /\ Cardinality(r[n + 1]) \in Nat /\ Cardinality(from) \in Nat
        BY <1>1, <2>2, <2>4, FS_Subset, FS_CardinalityType
      <4>3. Cardinality(r[n]) <= Cardinality(r[n + 1]) /\ (Cardinality(r[n + 1]) = Cardinality(r[n]) => r[n + 1] = r[n])
        BY <4>2, FS_Subset
      <4>4. Cardinality(r[n]) >= Cardinality(from) + n
        BY <2>2, <3>2
      <4> QED BY <4>1, <4>2, <4>3, <4>4
    <3> QED BY <3>1, <3>2
  <2> QED BY <2>4, <2>5, <2>6
<1>5. Good(k)
  <2> HIDE DEF Good
  <2>1. Nat \subseteq T
    <3> HIDE DEF T
    <3> QED BY <1>3, <1>4, StepByStep
  <2> QED BY <1>1, <2>1
<1>6. KeepsIn(graph, cell, r[k])
  <2>1. CASE Cardinality(r[k]) >= Cardinality(from) + k
    <3>1. /\ IsFiniteSet(r[k]) /\ Cardinality(r[k]) <= k /\ (k = Cardinality(r[k]) => cell = r[k])
          /\ Cardinality(r[k]) \in Nat /\ Cardinality(from) \in Nat
      BY <1>1, <1>5, FS_Subset, FS_CardinalityType DEF k
    <3>2. cell = r[k]
      BY <1>1, <2>1, <3>1
    <3> QED BY <3>2 DEF KeepsIn
  <2> QED BY <1>5, <2>1
<1> QED BY <1>5, <1>6 DEF k

-----------------------------------------------------------------------------
(* Orders that edges are inserted into.                                    *)

Place(order, e) == CHOOSE n \in DOMAIN order : order[n] = e

\* The place of an element in a list of it.
LEMMA PlaceIs ==
  ASSUME NEW E, NEW order, Lists(order, E), NEW e \in E
  PROVE  Place(order, e) \in 1..Len(order) /\ order[Place(order, e)] = e
<1>1. DOMAIN order = 1..Len(order) /\ Range(order) = E
  BY DEF Lists
<1>2. \E n \in DOMAIN order : order[n] = e
  BY <1>1 DEF Range
<1> QED BY <1>1, <1>2 DEF Place

\* A list of one set, and behind it another in a strict order.
LEMMA ListsBehind ==
  ASSUME NEW A, NEW B, A \cap B = {}, IsFiniteSet(B), NEW R, Orders(R, B), NEW a, Lists(a, A), NEW c, c = a \o Listed(B, R)
  PROVE  /\ Lists(c, A \cup B)
         /\ \A x, y \in B : <<x, y>> \in R => Place(c, x) < Place(c, y)
<1>1. PICK b : b = Listed(B, R)
  OBVIOUS
<1>2. Lists(b, B) /\ \A m, n \in 1..Cardinality(B) : m < n => <<b[m], b[n]>> \in R
  BY <1>1, Arranging
<1>3. Lists(c, A \cup B)
  BY <1>1, <1>2, ListsJoin
<1>4. PICK i \in Nat, j \in Nat : i = Cardinality(A) /\ j = Cardinality(B)
  BY <1>2, FS_CardinalityType DEF Lists
<1>5. a \in Seq(A) /\ b \in Seq(B) /\ Len(a) = i /\ Len(b) = j
  BY <1>2, <1>4 DEF Lists
<1>6. a \in Seq(A \cup B) /\ b \in Seq(A \cup B)
  BY <1>5
<1>7. Len(c) = i + j /\ (\A n \in 1..i : c[n] \in A) /\ \A n \in (i + 1)..(i + j) : n - i \in 1..j /\ c[n] = b[n - i]
  <2>1. PICK E : a \in Seq(E) /\ b \in Seq(E)
    BY <1>6
  <2>2. Len(c) = Len(a) + Len(b) /\ \A n \in 1..Len(c) : c[n] = IF n <= Len(a) THEN a[n] ELSE b[n - Len(a)]
    BY <1>1, <2>1, ConcatProperties
  <2>3. \A n \in 1..i : a[n] \in A
    BY <1>5
  <2> QED BY <1>5, <2>2, <2>3
<1>8. \A n \in 1..Len(c) : c[n] \in B => n \in (i + 1)..(i + j)
  BY <1>7
<1>9. ASSUME NEW m \in 1..Len(c), NEW n \in 1..Len(c), c[m] \in B, c[n] \in B, <<c[m], c[n]>> \in R PROVE m < n
  <2>1. m - i \in 1..j /\ n - i \in 1..j /\ c[m] = b[m - i] /\ c[n] = b[n - i]
    BY <1>7, <1>8, <1>9
  <2>2. m # n
    BY <1>9 DEF Orders
  <2>3. ~(n < m)
    <3>1. SUFFICES ASSUME n < m PROVE FALSE
      OBVIOUS
    <3>2. n - i < m - i
      BY <1>7, <3>1
    <3>3. <<c[n], c[m]>> \in R
      BY <1>2, <1>4, <2>1, <3>2
    <3> QED BY <1>9, <3>3, Zenon DEF Orders
  <2> QED BY <1>7, <2>2, <2>3
<1>10. ASSUME NEW x \in B, NEW y \in B, <<x, y>> \in R PROVE Place(c, x) < Place(c, y)
  <2>1. PICK E : E = A \cup B
    OBVIOUS
  <2>2. Lists(c, E) /\ x \in E /\ y \in E
    BY <1>3, <1>10, <2>1
  <2>3. Place(c, x) \in 1..Len(c) /\ c[Place(c, x)] = x /\ Place(c, y) \in 1..Len(c) /\ c[Place(c, y)] = y
    BY ONLY <2>2, PlaceIs
  <2> QED BY <1>9, <1>10, <2>3
<1> QED BY <1>3, <1>10

\* What an edge continues into, and what continues into it.
Beside(edges, e, f) == f # e /\ (edges[f].from = edges[e].to \/ edges[f].to = edges[e].from)

\* What has no rank, 0, and is next to something that has one.
AtRanked(edges, ranks) == {e \in DOMAIN edges : ranks[e] = 0 /\ \E f \in DOMAIN edges : Beside(edges, e, f) /\ ranks[f] # 0}

Highest(edges, ranks, e, f) == Beside(edges, e, f) /\ ranks[f] # 0 /\ \A g \in DOMAIN edges : Beside(edges, e, g) => ranks[g] <= ranks[f]

\* An order keeps ranks: what has one comes in their order, and what has none
\* behind the highest of what it is next to, before anything else ranked.
KeepsRanks(order, edges, ranks) ==
  /\ \A e, f \in DOMAIN edges : ranks[e] # 0 /\ ranks[f] # 0 /\ ranks[e] < ranks[f] => Place(order, e) < Place(order, f)
  /\ \A e \in AtRanked(edges, ranks) : \E f \in DOMAIN edges :
       /\ Highest(edges, ranks, e, f) /\ Place(order, f) < Place(order, e)
       /\ \A g \in DOMAIN edges : ranks[g] # 0 /\ Place(order, g) < Place(order, e) => Place(order, g) <= Place(order, f)

\* What has a rank is its own anchor, and what comes since is anchored to the
\* highest of what it is next to.
Anchors(edges, ranks, anchor, since) ==
  /\ \A e \in DOMAIN edges : anchor[e] \in Nat /\ since[e] \in Nat
  /\ \A e \in DOMAIN edges : ranks[e] # 0 => anchor[e] = ranks[e] /\ since[e] = 0
  /\ \A e \in AtRanked(edges, ranks) : since[e] # 0 /\ \E f \in DOMAIN edges : Highest(edges, ranks, e, f) /\ anchor[e] = ranks[f]
  /\ \A e, f \in DOMAIN edges : ranks[e] = ranks[f] /\ ranks[e] # 0 => e = f

\* By the anchor, and then by what it came since.
GoesBehind(order, E, anchor, since) ==
  \A x, y \in E : /\ anchor[x] # 0 /\ anchor[y] # 0
                  /\ anchor[x] < anchor[y] \/ (anchor[x] = anchor[y] /\ since[x] < since[y])
                  => Place(order, x) < Place(order, y)

\* That keeps ranks.
LEMMA AnchorsKeepRanks ==
  ASSUME NEW edges, NEW ranks, NEW anchor, NEW since, Anchors(edges, ranks, anchor, since),
         NEW order, Lists(order, DOMAIN edges), GoesBehind(order, DOMAIN edges, anchor, since)
  PROVE  KeepsRanks(order, edges, ranks)
<1>1. PICK E : E = DOMAIN edges
  OBVIOUS
<1>2. Lists(order, E)
  BY <1>1
<1>3. \A e \in E : Place(order, e) \in 1..Len(order) /\ order[Place(order, e)] = e
  BY ONLY <1>2, PlaceIs
<1>4. \A e, f \in E : ranks[e] # 0 /\ ranks[f] # 0 /\ ranks[e] < ranks[f] => Place(order, e) < Place(order, f)
  BY <1>1 DEF Anchors, GoesBehind
<1>5. ASSUME NEW e \in AtRanked(edges, ranks)
      PROVE  \E f \in E : /\ Highest(edges, ranks, e, f) /\ Place(order, f) < Place(order, e)
                          /\ \A g \in E : ranks[g] # 0 /\ Place(order, g) < Place(order, e) => Place(order, g) <= Place(order, f)
  <2>1. PICK f \in E : Highest(edges, ranks, e, f) /\ anchor[e] = ranks[f]
    BY <1>1 DEF Anchors
  <2>2. /\ e \in E /\ since[e] \in Nat /\ since[e] # 0 /\ anchor[f] = ranks[f] /\ since[f] = 0
        /\ anchor[f] # 0 /\ anchor[f] \in Nat /\ anchor[e] = anchor[f]
    BY <1>1, <2>1 DEF Anchors, AtRanked, Highest
  <2>3. Place(order, f) < Place(order, e)
    BY <1>1, <2>2 DEF GoesBehind
  <2>4. ASSUME NEW g \in E, ranks[g] # 0, Place(order, g) < Place(order, e) PROVE Place(order, g) <= Place(order, f)
    <3>1. anchor[g] = ranks[g] /\ anchor[g] \in Nat
      BY <1>1, <2>4 DEF Anchors
    <3>2. ~(Place(order, e) < Place(order, g))
      BY <1>3, <2>2, <2>4
    <3>3. ~(anchor[e] < anchor[g])
      BY <1>1, <2>2, <2>4, <3>1, <3>2 DEF GoesBehind
    <3>4. CASE anchor[g] = anchor[f]
      <4>1. g = f
        BY <1>1, <2>1, <2>2, <2>4, <3>1, <3>4 DEF Anchors
      <4> QED BY <1>3, <4>1
    <3>5. CASE anchor[g] < anchor[f]
      <4>1. Place(order, g) < Place(order, f)
        BY <1>4, <2>2, <2>4, <3>1, <3>5
      <4> QED BY <1>3, <4>1
    <3> QED BY <2>2, <3>1, <3>3, <3>4, <3>5
  <2> QED BY <2>1, <2>3, <2>4
<1> QED BY <1>1, <1>4, <1>5 DEF KeepsRanks

-----------------------------------------------------------------------------
(* Two groups of some parts, and a list of the elements of all of them.    *)

\* Parts of a cell, each smaller than it, that have no state in common.
Divides(parts, cell) ==
  /\ Len(parts) \in {2, 3} /\ parts \in [1..Len(parts) -> SUBSET cell] /\ parts \in Seq(SUBSET cell)
  /\ \A x \in cell : \E n \in 1..Len(parts) : x \in parts[n]
  /\ \A n \in 1..Len(parts) : parts[n] # cell
  /\ \A m, n \in 1..Len(parts) : m # n => parts[m] \cap parts[n] = {}

\* The lighter of two groups takes the next part.
Lighter(two, p) == IF Cardinality(two[2]) < Cardinality(two[1]) THEN <<two[1], two[2] \cup p>> ELSE <<two[1] \cup p, two[2]>>

\* Two parts or more make two groups.
LEMMA GroupsDivide ==
  ASSUME NEW cell, IsFiniteSet(cell), NEW k \in Nat, k >= 2, NEW order \in [1..k -> SUBSET cell],
         \A n \in 1..k : order[n] # {},
         \A m, n \in 1..k : m # n => order[m] \cap order[n] = {},
         \A x \in cell : \E n \in 1..k : x \in order[n]
  PROVE  Divides(FoldLeft(Lighter, <<{}, {}>>, order), cell)
<1> DEFINE D == (SUBSET cell) \X (SUBSET cell)
           next == [p \in D \X (1..k) |-> Lighter(p[1], order[p[2]])]
           Is(f) == f = [s \in SUBSET DOMAIN order |-> IF s = {} THEN <<{}, {}>> ELSE Lighter(f[s \ {Max(s)}], order[Max(s)])]
           iter == CHOOSE f : Is(f)
<1>1. DOMAIN order = 1..k
  OBVIOUS
<1>2. FoldLeft(Lighter, <<{}, {}>>, order) = iter[DOMAIN order]
  BY Zenon DEF FoldLeft, MapThenFoldSet
<1>3. ASSUME NEW two \in D, NEW n \in 1..k PROVE Lighter(two, order[n]) \in D
  BY DEF Lighter
<1>4. \E f : Is(f)
  <2>1. next \in [D \X (1..k) -> D]
    <3>1. \A p \in D \X (1..k) : p[1] \in D /\ p[2] \in 1..k
      OBVIOUS
    <3> HIDE DEF D
    <3> QED BY <1>3, <3>1
  <2>2. <<{}, {}>> \in D
    OBVIOUS
  <2> HIDE DEF D, next
  <2>3. PICK f : IsFold(f, k, D, <<{}, {}>>, next)
    BY <2>1, <2>2, Folding
  <2>4. /\ f \in [SUBSET (1..k) -> D]
        /\ f = [s \in SUBSET (1..k) |-> IF s = {} THEN <<{}, {}>> ELSE next[<<f[s \ {Max(s)}], Max(s)>>]]
    BY <2>3, Zenon DEF IsFold
  <2>5. \A s \in SUBSET (1..k) : f[s] = IF s = {} THEN <<{}, {}>> ELSE Lighter(f[s \ {Max(s)}], order[Max(s)])
    <3>1. SUFFICES ASSUME NEW s \in SUBSET (1..k), s # {} PROVE f[s] = Lighter(f[s \ {Max(s)}], order[Max(s)])
      BY <2>4
    <3>2. PICK m : m = Max(s)
      OBVIOUS
    <3>3. m \in 1..k
      BY <3>1, <3>2, MaxIsGreatest
    <3>4. f[s \ {m}] \in D
      BY <2>4
    <3>5. f[s] = next[<<f[s \ {m}], m>>]
      BY <2>4, <3>1, <3>2
    <3>6. next[<<f[s \ {m}], m>>] = Lighter(f[s \ {m}], order[m])
      BY <3>3, <3>4 DEF next
    <3> QED BY <3>2, <3>5, <3>6
  <2>6. f = [s \in SUBSET (1..k) |-> f[s]]
    BY <2>4
  <2>7. Is(f)
    BY <1>1, <2>5, <2>6, Zenon
  <2> QED BY <2>7
<1>5. Is(iter)
  BY <1>4, Zenon
<1> HIDE DEF iter
<1> DEFINE Good(s, two) == /\ two \in D /\ two[1] \cap two[2] = {}
                           /\ \A x : x \in two[1] \cup two[2] <=> \E n \in s : x \in order[n]
                           /\ s # {} => two[1] # {}
                           /\ (\E m, n \in s : m # n) => two[2] # {}
           P == {s \in SUBSET (1..k) : Good(s, iter[s])}
<1>6. {} \in P
  <2>1. iter[{}] = <<{}, {}>>
    BY <1>1, <1>5
  <2>2. Good({}, <<{}, {}>>)
    OBVIOUS
  <2> HIDE DEF Good
  <2> QED BY <2>1, <2>2
<1>7. ASSUME NEW s \in SUBSET (1..k), s # {}, s \ {Max(s)} \in P PROVE s \in P
  <2>1. PICK m : m = Max(s)
    OBVIOUS
  <2>2. m \in s /\ m \in 1..k
    BY <1>7, <2>1, MaxIsGreatest
  <2>3. PICK two : two = iter[s \ {m}]
    OBVIOUS
  <2>4. Good(s \ {m}, two)
    BY <1>7, <2>1, <2>3
  <2>5. iter[s] = Lighter(two, order[m])
    <3> HIDE DEF Good
    <3> QED BY <1>1, <1>5, <1>7, <2>1, <2>3
  <2>6. two[1] \in SUBSET cell /\ two[2] \in SUBSET cell /\ two \in D
    BY <2>4
  <2>7. order[m] \cap (two[1] \cup two[2]) = {} /\ order[m] # {} /\ order[m] \in SUBSET cell
    <3>1. \A n \in s \ {m} : order[m] \cap order[n] = {}
      BY <2>2
    <3> QED BY <2>2, <2>4, <3>1
  <2>8. Good(s, Lighter(two, order[m]))
    <3>1. Lighter(two, order[m]) \in D
      BY <1>3, <2>2, <2>6
    <3>2. CASE Cardinality(two[2]) < Cardinality(two[1])
      <4>1. Lighter(two, order[m]) = <<two[1], two[2] \cup order[m]>>
        BY <3>2 DEF Lighter
      <4>2. s \ {m} # {}
        <5>1. SUFFICES ASSUME s = {m} PROVE FALSE
          BY <2>2
        <5>2. two[1] = {} /\ two[2] = {}
          BY <2>4, <5>1
        <5>3. Cardinality(two[1]) = 0 /\ Cardinality(two[2]) = 0
          BY <5>2, FS_EmptySet
        <5> QED BY <3>2, <5>3
      <4>3. two[1] # {}
        BY <2>4, <4>2
      <4> DEFINE t == <<two[1], two[2] \cup order[m]>>
      <4>4. t[1] = two[1] /\ t[2] = two[2] \cup order[m]
        OBVIOUS
      <4> HIDE DEF D, t
      <4>5. \A x : x \in t[1] \cup t[2] <=> \E n \in s : x \in order[n]
        BY <2>2, <2>4, <4>4
      <4>6. t[1] \cap t[2] = {}
        BY <2>4, <2>7, <4>4
      <4>7. Good(s, t)
        BY <2>7, <3>1, <4>1, <4>3, <4>4, <4>5, <4>6 DEF t
      <4> QED BY <4>1, <4>7 DEF t
    <3>3. CASE ~(Cardinality(two[2]) < Cardinality(two[1]))
      <4>1. Lighter(two, order[m]) = <<two[1] \cup order[m], two[2]>>
        BY <3>3 DEF Lighter
      <4>2. (\E i, j \in s : i # j) => two[2] # {}
        <5>1. SUFFICES ASSUME NEW i \in s, NEW j \in s, i # j, two[2] = {} PROVE FALSE
          OBVIOUS
        <5>2. s \ {m} # {}
          BY <5>1
        <5>3. two[1] # {} /\ IsFiniteSet(two[1])
          BY <2>4, <2>6, <5>2, FS_Subset
        <5>4. Cardinality(two[1]) \in Nat /\ Cardinality(two[1]) # 0 /\ Cardinality(two[2]) = 0
          BY <5>1, <5>3, FS_EmptySet, FS_CardinalityType
        <5> QED BY <3>3, <5>4
      <4> DEFINE t == <<two[1] \cup order[m], two[2]>>
      <4>3. t[1] = two[1] \cup order[m] /\ t[2] = two[2]
        OBVIOUS
      <4> HIDE DEF D, t
      <4>4. \A x : x \in t[1] \cup t[2] <=> \E n \in s : x \in order[n]
        BY <2>2, <2>4, <4>3
      <4>5. t[1] \cap t[2] = {}
        BY <2>4, <2>7, <4>3
      <4>6. Good(s, t)
        BY <2>7, <3>1, <4>1, <4>2, <4>3, <4>4, <4>5 DEF t
      <4> QED BY <4>1, <4>6 DEF t
    <3> QED BY <3>2, <3>3
  <2> HIDE DEF Good
  <2> QED BY <2>5, <2>8
<1>8. SUBSET (1..k) \subseteq P
  <2> HIDE DEF P
  <2> QED BY <1>6, <1>7, FoldInduction
<1>9. PICK two : two = iter[1..k]
  OBVIOUS
<1>10. Good(1..k, two)
  BY <1>8, <1>9
<1>11. /\ two \in D /\ two[1] \cap two[2] = {} /\ two[1] # {} /\ two[2] # {}
       /\ \A x \in cell : x \in two[1] \cup two[2]
  <2>1. 1 \in 1..k /\ 2 \in 1..k
    OBVIOUS
  <2>2. \A x \in cell : \E n \in 1..k : x \in order[n]
    OBVIOUS
  <2>3. two \in D /\ two[1] \cap two[2] = {} /\ \A x : x \in two[1] \cup two[2] <=> \E n \in 1..k : x \in order[n]
    BY <1>10, Zenon
  <2>4. two[1] # {}
    BY <1>10, <2>1
  <2>5. two[2] # {}
    <3>1. \E m, n \in 1..k : m # n
      BY <2>1
    <3> QED BY <1>10, <3>1, Zenon
  <2> HIDE DEF D
  <2> QED BY <2>2, <2>3, <2>4, <2>5
<1>12. two = <<two[1], two[2]>> /\ two[1] \in SUBSET cell /\ two[2] \in SUBSET cell /\ two[1] # cell /\ two[2] # cell
  BY <1>11
<1>13. Len(two) = 2 /\ two \in [1..2 -> SUBSET cell] /\ two \in Seq(SUBSET cell)
  <2>1. PICK a \in SUBSET cell, b \in SUBSET cell : two = <<a, b>>
    BY <1>12
  <2>2. <<a, b>> \in Seq(SUBSET cell) /\ Len(<<a, b>>) = 2
    OBVIOUS
  <2>3. two \in [1..Len(two) -> SUBSET cell]
    BY <2>1, <2>2, LenProperties
  <2> QED BY <2>1, <2>2, <2>3
<1>14. \A n \in 1..2 : n = 1 \/ n = 2
  OBVIOUS
<1>15. Divides(two, cell)
  <2>1. 1 \in 1..2 /\ 2 \in 1..2
    OBVIOUS
  <2> HIDE DEF D, Good
  <2> QED BY <1>11, <1>12, <1>13, <1>14, <2>1 DEF Divides
<1> QED BY <1>1, <1>2, <1>9, <1>15

\* The lists of the parts of a cell, laid end to end.
LEMMA PartsListed ==
  ASSUME NEW cell, IsFiniteSet(cell), NEW parts, Divides(parts, cell),
         NEW lists \in [1..Len(parts) -> Seq(cell)], \A n \in 1..Len(parts) : Lists(lists[n], parts[n])
  PROVE  Lists(FlattenSeq(lists), cell)
<1>1. Len(parts) \in {2, 3} /\ lists \in Seq(Seq(cell)) /\ Len(lists) = Len(parts)
  <2>1. PICK k : k = Len(parts)
    OBVIOUS
  <2>2. k \in {2, 3}
    BY <2>1 DEF Divides
  <2>3. PICK S : S = Seq(cell)
    OBVIOUS
  <2>4. lists \in [1..k -> S]
    BY <2>1, <2>3
  <2>5. lists \in Seq(S) /\ Len(lists) = k
    BY <2>2, <2>4
  <2> QED BY <2>1, <2>2, <2>3, <2>5
<1>2. PICK f : /\ FlattenSeq(lists) = f[Len(lists)] /\ f[1] = lists[1]
               /\ \A k \in 2..Len(lists) : f[k] = f[k - 1] \o lists[k]
               /\ \A k \in 1..Len(lists) : f[k] \in Seq(cell)
  <2>1. Len(lists) > 0
    BY <1>1
  <2> QED BY <1>1, <2>1, FlattenSteps
<1>3. f[2] = lists[1] \o lists[2] /\ 1 \in 1..Len(parts) /\ 2 \in 1..Len(parts)
  <2>1. 2 \in 2..Len(lists) /\ 2 - 1 = 1 /\ 1 \in 1..Len(parts) /\ 2 \in 1..Len(parts)
    BY <1>1
  <2>2. f[2] = f[2 - 1] \o lists[2]
    BY <1>2, <2>1
  <2> QED BY <1>2, <2>1, <2>2
<1>4. parts[1] \cap parts[2] = {}
  BY <1>3 DEF Divides
<1>5. Lists(f[2], parts[1] \cup parts[2])
  BY <1>3, <1>4, ListsJoin
<1>6. CASE Len(parts) = 2
  <2>1. parts[1] \cup parts[2] = cell
    <3>1. \A n \in 1..Len(parts) : n = 1 \/ n = 2
      BY <1>6
    <3>2. \A x \in cell : x \in parts[1] \cup parts[2]
      BY <3>1 DEF Divides
    <3>3. parts[1] \in SUBSET cell /\ parts[2] \in SUBSET cell
      BY <1>3 DEF Divides
    <3> QED BY <3>2, <3>3
  <2> QED BY <1>1, <1>2, <1>5, <1>6, <2>1
<1>7. CASE Len(parts) = 3
  <2>1. 3 \in 1..Len(parts) /\ f[3] = f[2] \o lists[3]
    BY <1>1, <1>2, <1>7
  <2>2. (parts[1] \cup parts[2]) \cap parts[3] = {}
    <3>1. parts[1] \cap parts[3] = {} /\ parts[2] \cap parts[3] = {}
      BY <1>3, <2>1 DEF Divides
    <3> QED BY <3>1
  <2>3. Lists(f[3], (parts[1] \cup parts[2]) \cup parts[3])
    BY <1>5, <2>1, <2>2, ListsJoin
  <2>4. (parts[1] \cup parts[2]) \cup parts[3] = cell
    <3>1. \A n \in 1..Len(parts) : n = 1 \/ n = 2 \/ n = 3
      BY <1>7
    <3>2. \A x \in cell : x \in (parts[1] \cup parts[2]) \cup parts[3]
      BY <3>1 DEF Divides
    <3>3. parts[1] \in SUBSET cell /\ parts[2] \in SUBSET cell /\ parts[3] \in SUBSET cell
      BY <1>3, <2>1 DEF Divides
    <3> QED BY <3>2, <3>3
  <2> QED BY <1>1, <1>2, <1>7, <2>3, <2>4
<1> QED BY <1>1, <1>6, <1>7

\* A value more.
LEMMA LabelsGrow ==
  ASSUME NEW l, NEW values, NEW m \in Nat, Labels(l, values, m)
  PROVE  Labels(IF values[m + 1] \in Range(l) THEN l ELSE Append(l, values[m + 1]), values, m + 1)
<1>1. PICK v : v = values[m + 1]
  OBVIOUS
<1>2. PICK grown : grown = IF v \in Range(l) THEN l ELSE Append(l, v)
  OBVIOUS
<1> SUFFICES Labels(grown, values, m + 1)
  BY <1>1, <1>2
<1>3. /\ Len(l) \in Nat /\ DOMAIN l = 1..Len(l)
      /\ \A e : e \in Range(l) <=> \E i \in 1..Len(l) : l[i] = e
  BY IsListMeans DEF Labels
<1>4. 1..(m + 1) = 1..m \cup {m + 1}
  OBVIOUS
<1>5. CASE v \in Range(l)
  <2>1. grown = l
    BY <1>5, <1>2
  <2>2. PICK k \in 1..Len(l) : l[k] = v
    BY <1>3, <1>5
  <2>3. PICK i0 \in 1..m : values[i0] = v
    BY <2>2 DEF Labels
  <2>4. ASSUME NEW j \in 1..Len(l), l[j] = v PROVE j = 1 \/ \E h \in 1..m : values[h] = l[j - 1]
    <3>1. j = 1 \/ \E h \in 1..(i0 - 1) : values[h] = l[j - 1]
      BY <2>3, <2>4 DEF Labels
    <3>2. 1..(i0 - 1) \subseteq 1..m
      BY <2>3
    <3> QED BY <3>1, <3>2
  <2>5. \A i \in 1..(m + 1), j \in 1..Len(l) : l[j] = values[i] => j = 1 \/ \E h \in 1..(i - 1) : values[h] = l[j - 1]
    <3>1. (m + 1) - 1 = m
      OBVIOUS
    <3> QED BY <1>1, <1>4, <2>4, <3>1 DEF Labels
  <2>6. \A i \in 1..(m + 1) : \E j \in 1..Len(l) : l[j] = values[i]
    BY <1>1, <1>4, <2>2 DEF Labels
  <2>7. \A j \in 1..Len(l) : \E i \in 1..(m + 1) : l[j] = values[i]
    BY <1>4 DEF Labels
  <2>8. Labels(l, values, m + 1)
    BY <2>5, <2>6, <2>7 DEF Labels
  <2> QED BY <2>1, <2>8
<1>6. CASE v \notin Range(l)
  <2>1. PICK k \in Nat : k = Len(l)
    BY <1>3
  <2>2. PICK a : a = Append(l, v)
    OBVIOUS
  <2>3. grown = a
    BY <1>6, <1>2, <2>2
  <2>4. IsList(a) /\ Len(a) = k + 1 /\ a[k + 1] = v /\ \A j \in 1..k : a[j] = l[j]
    <3>1. PICK S : S = Range(l) \cup {v}
      OBVIOUS
    <3>2. \A i \in 1..Len(l) : l[i] \in S
      BY <1>3, <3>1
    <3>3. l \in Seq(S) /\ v \in S
      BY <3>1, <3>2, ListOver DEF Labels
    <3>4. a \in Seq(S) /\ Len(a) = k + 1 /\ a[k + 1] = v /\ \A j \in 1..k : a[j] = l[j]
      BY <2>1, <2>2, <3>3
    <3> QED BY <3>4, SeqIsList
  <2>5. 1..(k + 1) = 1..k \cup {k + 1} /\ (k + 1) - 1 = k /\ (m + 1) - 1 = m
    OBVIOUS
  <2>6. \A j \in 1..k : l[j] # v
    BY <1>3, <1>6, <2>1
  <2>7. \A i, j \in 1..(k + 1) : a[i] = a[j] => i = j
    <3>1. \A i, j \in 1..k : l[i] = l[j] => i = j
      BY <2>1 DEF Labels
    <3> QED BY <2>4, <2>5, <2>6, <3>1
  <2>8. ASSUME NEW i \in 1..m PROVE \E j \in 1..k : a[j] = values[i]
    <3>1. \E j \in 1..k : l[j] = values[i]
      BY <2>1 DEF Labels
    <3> QED BY <2>4, <3>1
  <2>9. \A i \in 1..(m + 1) : \E j \in 1..(k + 1) : a[j] = values[i]
    BY <1>1, <1>4, <2>4, <2>5, <2>8
  <2>10. \A j \in 1..k : \E i \in 1..m : a[j] = values[i]
    BY <2>1, <2>4 DEF Labels
  <2>11. \A j \in 1..(k + 1) : \E i \in 1..(m + 1) : a[j] = values[i]
    BY <1>1, <1>4, <2>4, <2>5, <2>10
  <2>12. ASSUME NEW i \in 1..(m + 1), NEW j \in 1..(k + 1), a[j] = values[i]
         PROVE  j = 1 \/ \E h \in 1..(i - 1) : values[h] = a[j - 1]
    <3>1. CASE i \in 1..m
      <4>1. PICK e \in 1..k : l[e] = values[i]
        BY <2>1, <3>1 DEF Labels
      <4>2. j \in 1..k
        BY <2>4, <2>5, <2>6, <2>12, <4>1
      <4>3. j = 1 \/ \E h \in 1..(i - 1) : values[h] = l[j - 1]
        BY <2>1, <2>4, <2>12, <3>1, <4>2 DEF Labels
      <4>4. j # 1 => j - 1 \in 1..k
        BY <4>2
      <4> QED BY <2>4, <4>3, <4>4
    <3>2. CASE i = m + 1
      <4>1. j = k + 1
        BY <1>1, <2>4, <2>5, <2>6, <2>12, <3>2
      <4>2. j # 1 => k \in 1..k
        BY <4>1
      <4> QED BY <2>5, <2>10, <3>2, <4>1, <4>2
    <3> QED BY <1>4, <3>1, <3>2
  <2>13. Labels(a, values, m + 1)
    BY <2>4, <2>7, <2>9, <2>11, <2>12 DEF Labels
  <2> QED BY <2>3, <2>13
<1> QED BY <1>5, <1>6

\* As many steps up as there are nodes lead to the root.
LEMMA ClimbsToRoot ==
  ASSUME NEW n \in Nat, NEW parent, NEW root, NEW d, Hangs(parent, n, root, d), NEW x \in 1..n,
         NEW r, r[0] = x, \A k \in 1..n : r[k] = parent[r[k - 1]]
  PROVE  r[n] = root[x]
<1>0. r[0] = x /\ \A k \in 1..n : r[k] = parent[r[k - 1]]
  OBVIOUS
<1>6. \A y \in 1..n : d[y] \in Nat /\ parent[y] \in 1..n
  BY DEF Hangs
<1> DEFINE T == {k \in Nat : k <= n => r[k] \in 1..n /\ root[r[k]] = root[x] /\ (d[r[k]] = 0 \/ d[r[k]] = d[x] - k)}
<1>7. 0 \in T
  BY <1>0, <1>6
<1>8. ASSUME NEW k \in Nat, k \in T PROVE k + 1 \in T
  <2>1. SUFFICES ASSUME k + 1 <= n PROVE /\ r[k + 1] \in 1..n /\ root[r[k + 1]] = root[x]
                                         /\ d[r[k + 1]] = 0 \/ d[r[k + 1]] = d[x] - (k + 1)
    OBVIOUS
  <2>2. r[k] \in 1..n /\ root[r[k]] = root[x] /\ (d[r[k]] = 0 \/ d[r[k]] = d[x] - k)
    BY <1>8, <2>1
  <2>3. r[k + 1] = parent[r[k]]
    <3>1. k + 1 \in 1..n /\ (k + 1) - 1 = k
      BY <2>1
    <3> QED BY <1>0, <3>1
  <2>4. CASE d[r[k]] = 0
    BY <2>2, <2>3, <2>4 DEF Hangs
  <2>5. CASE d[r[k]] # 0
    <3>1. d[parent[r[k]]] = d[r[k]] - 1 /\ root[parent[r[k]]] = root[r[k]]
      BY <2>2, <2>5 DEF Hangs
    <3> QED BY <1>6, <2>2, <2>3, <2>5, <3>1
  <2> QED BY <2>4, <2>5
<1>9. n \in T
  <2> HIDE DEF T
  <2> QED BY <1>7, <1>8, StepByStep
<1>10. d[x] < n
  BY DepthIsBelow
<1>11. r[n] \in 1..n /\ root[r[n]] = root[x] /\ d[r[n]] = 0
  BY <1>6, <1>9, <1>10
<1> QED BY <1>11 DEF Hangs

=============================================================================
