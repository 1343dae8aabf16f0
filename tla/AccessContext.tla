---------------------------- MODULE AccessContext ----------------------------
(***************************************************************************)
(* contracts/src/AccessContext.sol and the extensions it inherits: the     *)
(* roles, policies and permissions of every access context instance, and   *)
(* who may change them.  The handler's map from context ids to instances   *)
(* is declared here because a policy of another context is read through    *)
(* it; AccessContextHandler has the operations that change it.             *)
(***************************************************************************)
EXTENDS DIDRegistry

CONSTANTS EmptyDID,      \* bytes32(0), the owner of a renounced context
          ContextId, Role, PolicyId, Permission, Resource,
          Salt,
          Deployable,    \* bound: the clones explored, of Salt \X DID \X ContextId
          NoInstance,    \* address(0) in the handler's map
          Verifier,      \* policy verifier contracts
          NoVerifier,    \* a policy that was never registered
          Satisfiable,   \* verifiers for which an accepted proof is at hand
          InitContextId, \* bound: context ids a later call of init passes
          MaxCount       \* bound: policyCount, a uint256 in the code

ASSUME EmptyDIDAssumption == EmptyDID \in DID
ASSUME DeployableAssumption == Deployable \subseteq Salt \X DID \X ContextId
ASSUME NoInstanceAssumption == NoInstance \notin Deployable
ASSUME VerifierAssumption == Satisfiable \subseteq Verifier /\ NoVerifier \notin Verifier
ASSUME InitContextAssumption == InitContextId \subseteq ContextId
ASSUME MaxCountAssumption == MaxCount \in Nat

VARIABLES contexts,        \* the handler's _contexts
          deployed,        \* clones that exist on chain
          owner,           \* _owner of an instance
          thisContext,     \* _contextId of an instance
          handler,         \* contextHandler_ of an instance, see Party
          didRegistry,     \* _registry of an instance, see Party
          hasRole,         \* <<role, did>> pairs
          policies,        \* policies_: <<context, policy>> -> verifier
          rolePolicies,    \* assignments: <<role context, role>> -> policies
          policyCount,     \* assignments: <<role context, role>> -> counter
          permissions,     \* <<permission, resource, operation>> triples
          rolePermissions  \* <<role context, role, permission>> triples

policyVars == <<policies, rolePolicies, policyCount>>
permissionVars == <<permissions, rolePermissions>>
aclVars == <<hasRole, policyVars, permissionVars>>
configVars == <<owner, thisContext, handler, didRegistry>>
ctxVars == <<contexts, deployed, configVars, aclVars>>

\* An instance calls the handler and the DID registry deployed with it, or other
\* contracts its last init was given, which may answer anything.
Party == {"deployed", "foreign"}

Operation == {"READ", "WRITE"}
PolicyKey == ContextId \X PolicyId
RoleKey == ContextId \X Role

------------------------------------------------------------------------------
\* The storage of a clone that is not initialised reads as zeros; thisContext
\* has no zero id and takes the one the clone will be given.
CtxInit ==
  /\ contexts = [c \in ContextId |-> NoInstance]
  /\ deployed = {}
  /\ owner = [i \in Deployable |-> EmptyDID]
  /\ thisContext = [i \in Deployable |-> i[3]]
  /\ handler = [i \in Deployable |-> "deployed"]
  /\ didRegistry = [i \in Deployable |-> "deployed"]
  /\ hasRole = [i \in Deployable |-> {}]
  /\ policies = [i \in Deployable |-> [k \in PolicyKey |-> NoVerifier]]
  /\ rolePolicies = [i \in Deployable |-> [k \in RoleKey |-> {}]]
  /\ policyCount = [i \in Deployable |-> [k \in RoleKey |-> 0]]
  /\ permissions = [i \in Deployable |-> {}]
  /\ rolePermissions = [i \in Deployable |-> {}]

\* onlyOwner(did) passes for the instance's owner DID, called by the account
\* that controls it now; another registry may say so of any account.
OnlyOwner(i, sender) == didRegistry[i] = "foreign" \/ IsController(owner[i], sender)

\* A foreign handler is asked for policies of context c: by i, or by what the
\* deployed handler has for c when that has another id by now.
AsksForeign(i, c) ==
  /\ thisContext[i] # c
  /\ \/ handler[i] = "foreign"
     \/ contexts[c] # NoInstance /\ thisContext[contexts[c]] # c /\ handler[contexts[c]] = "foreign"

\* What _getPolicy may return to instance i: its own policies under its own
\* context id, those of the instance registered for any other.  The call does
\* not return when nothing is registered there, or an instance that has another
\* id by now and asks the handler for itself.
GetPolicy(i, key) ==
  LET c == key[1]
      j == contexts[c]
  IN IF c = thisContext[i] THEN {policies[i][key]}
     ELSE IF AsksForeign(i, c) THEN Verifier \cup {NoVerifier}
     ELSE IF j # NoInstance /\ thisContext[j] = c THEN {policies[j][key]}
     ELSE {NoVerifier}

\* One iteration of the loop of grantRole passes: for the policy asked for or,
\* from a foreign handler, for one the role has with a verifier that accepts.
PolicySatisfied(i, role, key) ==
  LET assigned == rolePolicies[i][<<thisContext[i], role>>]
  IN \/ key \in assigned /\ GetPolicy(i, key) \cap Satisfiable # {}
     \/ AsksForeign(i, key[1]) /\ assigned # {}

------------------------------------------------------------------------------
\* A call of init on a clone that is deployed already, by anyone and with any
\* handler and DID registry: nothing in init asks whether it ran before.
Init(i, initialOwner, id, newHandler, newRegistry) ==
  /\ initialOwner # EmptyDID
  /\ owner' = [owner EXCEPT ![i] = initialOwner]
  /\ thisContext' = [thisContext EXCEPT ![i] = id]
  /\ handler' = [handler EXCEPT ![i] = newHandler]
  /\ didRegistry' = [didRegistry EXCEPT ![i] = newRegistry]
  /\ UNCHANGED <<contexts, deployed, aclVars>>

\* Anyone may call; every policy of the list is checked, an empty list passes.
GrantRole(i, role, did, claimed) ==
  /\ \A key \in claimed : PolicySatisfied(i, role, key)
  /\ hasRole' = [hasRole EXCEPT ![i] = @ \cup {<<role, did>>}]
  /\ UNCHANGED <<contexts, deployed, configVars, policyVars, permissionVars>>

\* onlyOwnerOrRole(role, did) asks whether did, not the sender, has the role.
RevokeRole(i, sender, role, did) ==
  /\ \/ <<role, did>> \in hasRole[i]
     \/ owner[i] = did /\ OnlyOwner(i, sender)
  /\ hasRole' = [hasRole EXCEPT ![i] = @ \ {<<role, did>>}]
  /\ UNCHANGED <<contexts, deployed, configVars, policyVars, permissionVars>>

------------------------------------------------------------------------------
\* The internal functions the setters share.

\* MUTANT of RegisterPolicyIn: an existing policy is overwritten.
RegisterPolicyIn_Overwrite(i, key, verifier) ==
  policies' = [policies EXCEPT ![i][key] = verifier]

\* _registerPolicy
RegisterPolicyIn(i, key, verifier) ==
  /\ policies[i][key] = NoVerifier
  /\ policies' = [policies EXCEPT ![i][key] = verifier]

\* _assignPolicyToRole, always for the instance's own context: the counter grows
\* even when the role has the policy already.
AssignPolicyToRole(i, role, key) ==
  LET roleKey == <<thisContext[i], role>>
  IN /\ policyCount[i][roleKey] < MaxCount
     /\ rolePolicies' = [rolePolicies EXCEPT ![i][roleKey] = @ \cup {key}]
     /\ policyCount' = [policyCount EXCEPT ![i][roleKey] = @ + 1]

\* _registerPermissionForResource
RegisterPermissionForResource(i, permission, resource, operations) ==
  permissions' = [permissions EXCEPT
    ![i] = @ \cup ({permission} \X {resource} \X operations)]

\* _assignPermissionToRole
AssignPermissionToRole(i, roleContext, role, permission) ==
  rolePermissions' = [rolePermissions EXCEPT
    ![i] = @ \cup {<<roleContext, role, permission>>}]

------------------------------------------------------------------------------
\* setupRole for a policy of any context, which need not be registered there.
SetupRole(i, sender, role, key, permission, resource, operations) ==
  /\ OnlyOwner(i, sender)
  /\ AssignPolicyToRole(i, role, key)
  /\ RegisterPermissionForResource(i, permission, resource, operations)
  /\ AssignPermissionToRole(i, thisContext[i], role, permission)
  /\ UNCHANGED <<contexts, deployed, configVars, hasRole, policies>>

\* setupRole with a new policy of this context.
SetupRoleWithPolicy(i, sender, role, policy, permission, resource, operations, verifier) ==
  LET key == <<thisContext[i], policy>>
  IN /\ OnlyOwner(i, sender)
     /\ RegisterPolicyIn(i, key, verifier)
     /\ AssignPolicyToRole(i, role, key)
     /\ RegisterPermissionForResource(i, permission, resource, operations)
     /\ AssignPermissionToRole(i, thisContext[i], role, permission)
     /\ UNCHANGED <<contexts, deployed, configVars, hasRole>>

RegisterPolicy(i, sender, policy, verifier) ==
  /\ OnlyOwner(i, sender)
  /\ RegisterPolicyIn(i, <<thisContext[i], policy>>, verifier)
  /\ UNCHANGED <<contexts, deployed, configVars, hasRole, rolePolicies,
                 policyCount, permissionVars>>

RegisterPolicyForRole(i, sender, role, policy, verifier) ==
  LET key == <<thisContext[i], policy>>
  IN /\ OnlyOwner(i, sender)
     /\ RegisterPolicyIn(i, key, verifier)
     /\ AssignPolicyToRole(i, role, key)
     /\ UNCHANGED <<contexts, deployed, configVars, hasRole, permissionVars>>

AssignPolicy(i, sender, role, key) ==
  /\ OnlyOwner(i, sender)
  /\ AssignPolicyToRole(i, role, key)
  /\ UNCHANGED <<contexts, deployed, configVars, hasRole, policies, permissionVars>>

\* registerPermission without a role has no modifier.
RegisterPermission(i, permission, resource, operations) ==
  /\ RegisterPermissionForResource(i, permission, resource, operations)
  /\ UNCHANGED <<contexts, deployed, configVars, hasRole, policyVars, rolePermissions>>

RegisterPermissionForRole(i, sender, permission, resource, operations, roleContext, role) ==
  /\ OnlyOwner(i, sender)
  /\ RegisterPermissionForResource(i, permission, resource, operations)
  /\ AssignPermissionToRole(i, roleContext, role, permission)
  /\ UNCHANGED <<contexts, deployed, configVars, hasRole, policyVars>>

AssignPermission(i, sender, permission, roleContext, role) ==
  /\ OnlyOwner(i, sender)
  /\ AssignPermissionToRole(i, roleContext, role, permission)
  /\ UNCHANGED <<contexts, deployed, configVars, hasRole, policyVars, permissions>>

UnassignPermission(i, sender, permission, roleContext, role) ==
  /\ OnlyOwner(i, sender)
  /\ rolePermissions' = [rolePermissions EXCEPT
       ![i] = @ \ {<<roleContext, role, permission>>}]
  /\ UNCHANGED <<contexts, deployed, configVars, hasRole, policyVars, permissions>>

\* MUTANT of TransferOwnership: the modifier is missing.
TransferOwnership_Anyone(i, sender, newOwner) ==
  /\ owner' = [owner EXCEPT ![i] = newOwner]
  /\ UNCHANGED <<contexts, deployed, thisContext, handler, didRegistry, aclVars>>

\* transferOwnership and, with EmptyDID, renounceOwnership: the new owner is not
\* looked at.
TransferOwnership(i, sender, newOwner) ==
  /\ OnlyOwner(i, sender)
  /\ owner' = [owner EXCEPT ![i] = newOwner]
  /\ UNCHANGED <<contexts, deployed, thisContext, handler, didRegistry, aclVars>>

RenounceOwnership(i, sender) == TransferOwnership(i, sender, EmptyDID)

------------------------------------------------------------------------------
\* A call of an access context instance.
RoleCall(i) ==
  \E role \in Role, did \in DID :
    \/ \E claimed \in SUBSET PolicyKey : GrantRole(i, role, did, claimed)
    \/ \E sender \in Account : RevokeRole(i, sender, role, did)

PolicyCall(i, sender) ==
  \E policy \in PolicyId :
    \/ \E verifier \in Verifier :
         \/ RegisterPolicy(i, sender, policy, verifier)
         \/ \E role \in Role : RegisterPolicyForRole(i, sender, role, policy, verifier)
    \/ \E role \in Role, c \in ContextId : AssignPolicy(i, sender, role, <<c, policy>>)

PermissionCall(i, sender) ==
  \E permission \in Permission, role \in Role, roleContext \in ContextId :
    \/ AssignPermission(i, sender, permission, roleContext, role)
    \/ UnassignPermission(i, sender, permission, roleContext, role)
    \/ \E resource \in Resource, operations \in SUBSET Operation :
         \/ RegisterPermission(i, permission, resource, operations)
         \/ RegisterPermissionForRole(i, sender, permission, resource, operations,
                                      roleContext, role)
         \/ \E policy \in PolicyId :
              SetupRole(i, sender, role, <<roleContext, policy>>, permission, resource, operations)
         \/ \E policy \in PolicyId, verifier \in Verifier :
              SetupRoleWithPolicy(i, sender, role, policy, permission, resource,
                                  operations, verifier)

\* init is called on instance i, which is deployed.
Reinitialised(i) ==
  \E initialOwner \in DID, id \in InitContextId, newHandler, newRegistry \in Party :
    Init(i, initialOwner, id, newHandler, newRegistry)

OwnershipCall(i) ==
  \/ \E sender \in Account, newOwner \in DID : TransferOwnership(i, sender, newOwner)
  \/ \E sender \in Account : RenounceOwnership(i, sender)
  \/ Reinitialised(i)

ContextCall ==
  \E i \in deployed :
    \/ RoleCall(i)
    \/ \E sender \in Account : PolicyCall(i, sender) \/ PermissionCall(i, sender)
    \/ OwnershipCall(i)
==============================================================================
