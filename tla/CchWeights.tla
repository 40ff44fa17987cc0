---------------------------- MODULE CchWeights ----------------------------
(***************************************************************************)
(* The fixed-point weights of the contraction hierarchy (core, metrics.rs) *)
(* and the reference the hierarchy is judged by: cheapest walks of a       *)
(* directed graph.  A cost is a natural number of which Tick make one      *)
(* fixed-point tick.  A weight is a number of ticks; Overflow stands for   *)
(* every finite weight that no longer fits and Infinity for no way at all, *)
(* above every weight and, in the instances, above every sum of weights.   *)
(***************************************************************************)
EXTENDS Integers, FiniteSets, FiniteSetsExt, TLC

CONSTANTS Tick,      \* units of cost in one fixed-point tick
          Overflow,  \* the largest finite weight, reached by saturation
          Infinity   \* what there is no way for

ASSUME WeightAssumption == /\ Tick \in Nat \ {0} /\ Overflow \in Nat \ {0}
                           /\ Infinity \in Nat /\ Overflow < Infinity

Least(S) == Min(S)

\* A decoded weight is a real number again: sums do not saturate.
Plus(l, r) == IF Infinity \in {l, r} THEN Infinity ELSE l + r

\* Rounds to the nearest tick; a positive cost keeps at least one.
EncodeWeight(w) ==
  Least({Overflow, Max({(2 * w + Tick) \div (2 * Tick), IF w > 0 THEN 1 ELSE 0})})

AddWeights(l, r) == IF Infinity \in {l, r} THEN Infinity ELSE Least({Overflow, l + r})

-----------------------------------------------------------------------------
(* Reference: for every vertex the cost of the cheapest walk to it from x  *)
(* that has a step and whose inner vertices lie in inner; a step <<u, v>>  *)
(* costs base[u, v].                                                       *)

\* The same function; TLC tabulates it instead of evaluating it at every use.
Tabulated(f) == CHOOSE g \in {f} : g = f

CheapestFrom(vertices, base, inner, x) ==
  LET walk[n \in 1 .. Cardinality(vertices)] ==
        IF n = 1 THEN Tabulated([z \in vertices |-> base[<<x, z>>]])
        ELSE LET shorter == walk[n - 1]
             IN  Tabulated([z \in vertices |->
                    Least({shorter[z]} \cup {Plus(shorter[m], base[<<m, z>>]) : m \in inner})])
  IN  walk[Cardinality(vertices)]
=============================================================================
