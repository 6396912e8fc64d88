----------------------------- MODULE BestSoFar ------------------------------
(***************************************************************************)
(* What the two optimisers of sa_solver promise: they wander through       *)
(* solutions and hand back the best one met under their objective.  The    *)
(* objective may change on the way; from then on the value to beat is that *)
(* of the solution they stand on, and the solution kept so far stays until *)
(* it is beaten.  How a solution is found, evaluated or cached, and when   *)
(* the search stops, is left open.                                         *)
(***************************************************************************)
EXTENDS Integers

CONSTANTS
  Solution,
  Objective,
  Value(_, _)      \* of a solution under an objective; more is better

NotYet == <<>>

VARIABLES
  objective,       \* what is optimised at present
  current,         \* where the search stands
  kept,            \* what would be handed back
  bar,             \* the value to beat
  result           \* NotYet, or what was handed back

vars == <<objective, current, kept, bar, result>>

Init ==
  /\ objective \in Objective
  /\ current \in Solution
  /\ kept = current
  /\ bar = Value(objective, current)
  /\ result = NotYet

\* The search moves on to a solution that does not beat the bar ...
Pass ==
  /\ result = NotYet
  /\ current' \in Solution
  /\ Value(objective, current') <= bar
  /\ UNCHANGED <<objective, kept, bar, result>>

\* ... or to one that does, and keeps it.
Keep ==
  /\ result = NotYet
  /\ current' \in Solution
  /\ Value(objective, current') > bar
  /\ kept' = current'
  /\ bar' = Value(objective, current')
  /\ UNCHANGED <<objective, result>>

Change ==
  /\ result = NotYet
  /\ objective' \in Objective \ {objective}
  /\ bar' = Value(objective', current)
  /\ UNCHANGED <<current, kept, result>>

HandBack ==
  /\ result = NotYet
  /\ result' = kept
  /\ UNCHANGED <<objective, current, kept, bar>>

Next == Pass \/ Keep \/ Change \/ HandBack

Spec == Init /\ [][Next]_vars
=============================================================================
