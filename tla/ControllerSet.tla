---------------------------- MODULE ControllerSet ----------------------------
(***************************************************************************)
(* What a DID registry promises, without lists and indices: every          *)
(* identity has a set of members, one of them, the head, acts for it, and  *)
(* only the head changes the set or hands its position over.               *)
(***************************************************************************)
CONSTANTS DID,          \* identities
          Account,      \* addresses that can send a transaction
          ZeroAddress   \* address(0), which can never send one

VARIABLES members,      \* members[d]: the controllers of d
          head          \* head[d]: the one that acts for d

csVars == <<members, head>>

Address == Account \cup {ZeroAddress}

CSInit ==
  \E first \in [DID -> {{}} \cup {{a} : a \in Address}] :
    /\ members = first
    /\ head \in [DID -> Address]
    /\ \A d \in DID : IF first[d] = {} THEN head[d] = ZeroAddress
                                       ELSE head[d] \in first[d]

\* Anybody may claim an identity that has no member yet.
Claim(d, a) ==
  /\ members[d] = {}
  /\ members' = [members EXCEPT ![d] = {a}]
  /\ head' = [head EXCEPT ![d] = a]

\* An account that acts for d.
Acts(d, actor) == members[d] # {} /\ head[d] = actor

Enlist(d, actor, a) ==
  /\ Acts(d, actor)
  /\ members' = [members EXCEPT ![d] = @ \cup {a}]
  /\ UNCHANGED head

Dismiss(d, actor, a) ==
  /\ Acts(d, actor)
  /\ a \in members[d] \ {head[d]}
  /\ members' = [members EXCEPT ![d] = @ \ {a}]
  /\ UNCHANGED head

HandOver(d, actor, a) ==
  /\ Acts(d, actor)
  /\ a \in members[d]
  /\ head' = [head EXCEPT ![d] = a]
  /\ UNCHANGED members

CSNext ==
  \E d \in DID, a \in Address :
    \/ Claim(d, a)
    \/ \E actor \in Account :
         Enlist(d, actor, a) \/ Dismiss(d, actor, a) \/ HandOver(d, actor, a)

CSSpec == CSInit /\ [][CSNext]_csVars
==============================================================================
