-------------------------- MODULE LiveTrafficUpdates --------------------------
(***************************************************************************)
(* Live traffic updates as values: how one batch turns the entries of a    *)
(* snapshot into the next, from crates/query/src/traffic.rs.  A feature    *)
(* stands for one directed source feature; an update of direction "both"   *)
(* is two of them.  Time is in ticks, Minute ticks to the minute.          *)
(***************************************************************************)
EXTENDS Naturals, FiniteSets, SequencesExt

CONSTANTS
  Features,   \* directed source features, numbers so that they are ordered
  WithEdges,  \* the features some edge of the network has
  Minute      \* ticks per minute, the resolution of an expiry

ASSUME FeaturesAssumption == Features \subseteq Nat /\ IsFiniteSet(Features)
ASSUME WithEdgesAssumption == WithEdges \subseteq Features
ASSUME MinuteAssumption == Minute \in Nat \ {0}

Clear == "clear"
NoEntries == [f \in {} |-> 0]

\* An update carries an absolute expiry or a time to live that is counted
\* from the instant the batch is applied.
Expiry(u, at) == IF u.ttl THEN at + u.t ELSE u.t

\* validated_expiry; what it checks of the fields cannot change in a queue.
Valid(u, at) == u.value = Clear \/ Expiry(u, at) > at

RoundUp(t) == t + ((Minute - (t % Minute)) % Minute)

Unexpired(at, es) ==
  Restrict(es, {f \in DOMAIN es : es[f].until > at})

Named(updates) == {updates[i].feature : i \in DOMAIN updates}
LastFor(f, updates) ==
  updates[Max({i \in DOMAIN updates : updates[i].feature = f})]

\* next_live_snapshot: the last update of a feature decides, and every other
\* entry stays until it expires.  A direction without edges carries no state.
NextEntries(at, es, updates, replace) ==
  LET base == IF replace THEN NoEntries ELSE Unexpired(at, es)
      set == {f \in Named(updates) \cap WithEdges : LastFor(f, updates).value # Clear}
  IN  [f \in (DOMAIN base \ Named(updates)) \cup set |->
         IF f \in set
         THEN [value |-> LastFor(f, updates).value, from |-> at,
               until |-> RoundUp(Expiry(LastFor(f, updates), at))]
         ELSE base[f]]

ActiveAt(t, entry) == entry.from <= t /\ t < entry.until
ActiveFeatures(t, es) == {f \in DOMAIN es : ActiveAt(t, es[f])}
ChangesAfter(t, es) ==
  {x \in {es[f].from : f \in DOMAIN es} \cup {es[f].until : f \in DOMAIN es} :
     x > t}
===============================================================================
