----------------------------- MODULE MCContexts ------------------------------
(***************************************************************************)
(* The on-chain system with several clones: contexts that are deleted and  *)
(* created again and policies that refer to another context's.             *)
(***************************************************************************)
EXTENDS MCAccessContextHandler

\* Two clones of c1 in turn: c1 can be deleted and created again.
MCTwoLives == {<<t1, d1, c1>>, <<t2, d1, c1>>}
\* A clone of each context, and a second one of c2.
MCCross == {<<t1, d1, c1>>, <<t1, d1, c2>>, <<t2, d1, c2>>}
MCClones == MCTwoLives \cup MCCross

\* Bounds: a state explored has policies that no role has yet, and then neither
\* roles nor sessions nor renounced contexts, or roles and sessions, and then no
\* policies, or one clone with all it can have, and then no sessions; permissions
\* are in the last only.  Foreign contracts are those of one instance, which has
\* a foreign handler among policies, and any when nothing else is there.
WithForeign == {i \in deployed : "foreign" \in {handler[i], didRegistry[i]}}

NoSessionYet ==
  /\ sessVars = <<[id \in SessionId |-> NoSession], HandlerAddress, 1>>
  /\ sessionRegistry = NoRegistry

NothingAssigned ==
  \A i \in deployed, k \in RoleKey : rolePolicies[i][k] = {}

PoliciesAlone ==
  /\ deployed \subseteq MCCross
  /\ \A i, j \in WithForeign : i = j /\ didRegistry[i] = "deployed"
  /\ \A i \in deployed : hasRole[i] = {}
  /\ NoSessionYet
  /\ NothingAssigned
  /\ controllers[dEmpty] = <<>> /\ \A i \in deployed : owner[i] = d1

RolesAlone ==
  /\ deployed \subseteq MCTwoLives
  /\ WithForeign = {}
  /\ \A i \in deployed : thisContext[i] = i[3]
  /\ \A i \in deployed, k \in PolicyKey : policies[i][k] = NoVerifier
  /\ NothingAssigned

OneClone ==
  /\ deployed \subseteq MCOneClone
  /\ \A i \in deployed : thisContext[i] = i[3]
  /\ NoSessionYet
  /\ \A i \in WithForeign : hasRole[i] = {} /\ permissions[i] = {} /\ rolePermissions[i] = {}

NoPermissions ==
  \A i \in deployed : permissions[i] = {} /\ rolePermissions[i] = {}

Explored == OneClone \/ (NoPermissions /\ (PoliciesAlone \/ RolesAlone))
==============================================================================
