------------------------ MODULE RestrictionAutomaton ------------------------
(***************************************************************************)
(* The automaton that recognises forbidden sequences of edges while a      *)
(* search walks (query, engine/automaton.rs).  A state is the prefix of    *)
(* some sequence that the last edges of the walk spell, << >> the root.    *)
(***************************************************************************)
EXTENDS Integers, SequencesExt, CchWeights

Root == << >>

AutomatonStates(sequences) ==
  {Root} \cup UNION {{SubSeq(s, 1, n) : n \in 1 .. Len(s) - 1} : s \in sequences}

\* The state a failed match falls back to: the first state along the failure
\* chain of the shorter prefix that the last edge continues.
Failures(sequences) ==
  LET states == AutomatonStates(sequences)
      failure[p \in states] ==
        LET chain[q \in states] == CASE Append(q, Last(p)) \in states -> Append(q, Last(p))
                                     [] Append(q, Last(p)) \notin states /\ q = Root -> Root
                                     [] OTHER -> chain[failure[q]]
        IN  IF Len(p) <= 1 THEN Root ELSE chain[failure[Front(p)]]
  IN  Tabulated(failure)

\* transition[state, edge], and the length of the longest sequence that the
\* edge would complete in the state, 0 when it completes none.
Automaton(sequences, edges) ==
  LET states  == AutomatonStates(sequences)
      failure == Failures(sequences)
      go[a \in states \X edges] ==
        CASE Append(a[1], a[2]) \in states -> Append(a[1], a[2])
          [] Append(a[1], a[2]) \notin states /\ a[1] = Root -> Root
          [] OTHER -> go[<<failure[a[1]], a[2]>>]
      prohibited[a \in states \X edges] ==
        Max({IF s = Append(a[1], a[2]) THEN Len(s) ELSE 0 : s \in sequences}
            \cup {IF a[1] = Root THEN 0 ELSE prohibited[<<failure[a[1]], a[2]>>]})
  IN  [states |-> states, transition |-> Tabulated(go), prohibited |-> Tabulated(prohibited)]
=============================================================================
