-------------------------------- MODULE Docket --------------------------------
(***************************************************************************)
(* What a client may rely on that files the same item as often as it       *)
(* likes and polls the operation about it: each filing opens the operation *)
(* once or is refused once, an open operation is settled once, and what is *)
(* settled stays so until a further filing.                                *)
(***************************************************************************)
CONSTANTS Item,      \* what is decided upon
          Filing,    \* requests that ask for a decision
          Outcome,   \* what an item can be settled with
          Refusal    \* what a filing is refused with

VARIABLES verdict,   \* of each item: Unknown, Undecided or Settled(outcome)
          filed      \* of each item: filings that are still to be taken up

docketVars == <<verdict, filed>>

Unknown == <<"unknown">>
Undecided == <<"undecided">>
Settled(outcome) == <<"settled", outcome>>

DocketInit ==
  /\ verdict = [i \in Item |-> Unknown]
  /\ filed = [i \in Item |-> {}]

File(i, f) ==
  /\ \A j \in Item : f \notin filed[j]
  /\ filed' = [filed EXCEPT ![i] = @ \cup {f}]
  /\ UNCHANGED verdict

\* A filing is used up by what it leads to, and then gone.
UseUp(i, f) == f \in filed[i] /\ filed' = [filed EXCEPT ![i] = @ \ {f}]

Withdraw(i, f) == UseUp(i, f) /\ UNCHANGED verdict

\* Whatever the item was, settled included, it is open for a decision.
Open(i, f) == UseUp(i, f) /\ verdict' = [verdict EXCEPT ![i] = Undecided]

Refuse(i, f) == UseUp(i, f) /\ verdict' = [verdict EXCEPT ![i] = Settled(Refusal)]

Settle(i, outcome) ==
  /\ verdict[i] = Undecided
  /\ verdict' = [verdict EXCEPT ![i] = Settled(outcome)]
  /\ UNCHANGED filed

DocketNext ==
  \E i \in Item :
    \/ \E f \in Filing : File(i, f) \/ Withdraw(i, f) \/ Open(i, f) \/ Refuse(i, f)
    \/ \E outcome \in Outcome : Settle(i, outcome)

DocketSpec == DocketInit /\ [][DocketNext]_docketVars
==============================================================================
