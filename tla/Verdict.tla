------------------------------- MODULE Verdict -------------------------------
(***************************************************************************)
(* What a client that polls a long-running operation may rely on: the      *)
(* operation is unknown, then open, and settled at most once; what it was  *)
(* settled with never changes and the operation is never open again.       *)
(***************************************************************************)
CONSTANTS Item,      \* what is decided upon
          Outcome    \* what it can be settled with

VARIABLE verdict     \* of each item: Unknown, Undecided or Settled(outcome)

Unknown == <<"unknown">>
Undecided == <<"undecided">>
Settled(outcome) == <<"settled", outcome>>

VerdictInit == verdict = [i \in Item |-> Unknown]

Open(i) ==
  /\ verdict[i] = Unknown
  /\ verdict' = [verdict EXCEPT ![i] = Undecided]

\* An item may be settled as it becomes known, without having been open.
Settle(i, outcome) ==
  /\ verdict[i] \in {Unknown, Undecided}
  /\ verdict' = [verdict EXCEPT ![i] = Settled(outcome)]

VerdictNext == \E i \in Item : Open(i) \/ \E outcome \in Outcome : Settle(i, outcome)

VerdictSpec == VerdictInit /\ [][VerdictNext]_verdict
==============================================================================
