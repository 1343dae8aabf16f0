---------------------- MODULE AccessContextHandler_proofs ----------------------
(***************************************************************************)
(* The on-chain system: sessions are not renewed and stay locked in, a     *)
(* policy keeps its verifier, an instance with a locked owner is frozen    *)
(* and access is opened by a grant or a session, for any contexts, clones, *)
(* roles, policies and sessions, with any calls of the three contracts and *)
(* any foreign contracts that are set in place of them.                    *)
(*                                                                         *)
(* What the handler's map refers to exists on chain (RegisteredExist), and *)
(* a clone that does not exist yet has no roles (FreshHasNoRoles).         *)
(***************************************************************************)
EXTENDS AccessContextHandler, DIDRegistry_proofs

SessTypeOK ==
  /\ now \in Nat \ {0}
  /\ DOMAIN sessions = SessionId
  /\ \A id \in SessionId : Exists(id) => sessions[id] \in [user : DID, expiration : Nat]

CtxTypeOK ==
  /\ contexts \in [ContextId -> Deployable \cup {NoInstance}]
  /\ deployed \in SUBSET Deployable
  /\ owner \in [Deployable -> DID]
  /\ thisContext \in [Deployable -> ContextId]
  /\ handler \in [Deployable -> Party]
  /\ didRegistry \in [Deployable -> Party]
  /\ hasRole \in [Deployable -> SUBSET (Role \X DID)]
  /\ policies \in [Deployable -> [PolicyKey -> Verifier \cup {NoVerifier}]]
  /\ rolePolicies \in [Deployable -> [RoleKey -> SUBSET PolicyKey]]
  /\ policyCount \in [Deployable -> [RoleKey -> Nat]]
  /\ permissions \in [Deployable -> SUBSET (Permission \X Resource \X Operation)]
  /\ rolePermissions \in [Deployable -> SUBSET (ContextId \X Role \X Permission)]

\* What is registered for a context was deployed.
RegisteredExist == \A c \in ContextId : contexts[c] \in deployed \cup {NoInstance}

\* A clone that is yet to be made has nobody in a role.
FreshHasNoRoles == \A i \in Deployable \ deployed : hasRole[i] = {}

HInv ==
  /\ CtxTypeOK /\ SessTypeOK /\ ValidOnlyIfOpen
  /\ RegisteredExist /\ FreshHasNoRoles

------------------------------------------------------------------------------
LEMMA SessionInit == SessInit => SessTypeOK /\ ValidOnlyIfOpen
BY DurationAssumption DEF SessInit, SessTypeOK, ValidOnlyIfOpen, IsSessionValid, Expiration, Exists

LEMMA SessionStep ==
  ASSUME SessTypeOK, ValidOnlyIfOpen, [SRNext]_SessVars
  PROVE  SessTypeOK' /\ ValidOnlyIfOpen'
<1> USE DurationAssumption
<1>1. CASE UNCHANGED sessVars
  BY <1>1 DEF sessVars, SessTypeOK, ValidOnlyIfOpen, IsSessionValid, Expiration, Exists
<1>2. ASSUME NEW id \in SessionId, NEW user \in DID, StartSession(id, user)
      PROVE  SessTypeOK' /\ ValidOnlyIfOpen'
  <2>1. /\ UNCHANGED now /\ DOMAIN sessions' = SessionId
        /\ sessions'[id] = [user |-> user, expiration |-> now + SessionDuration]
        /\ \A other \in SessionId \ {id} : sessions'[other] = sessions[other]
    BY <1>2 DEF StartSession, SessTypeOK
  <2>2. sessions'[id] \in [user : DID, expiration : Nat]
    BY <2>1 DEF SessTypeOK
  <2>3. SessTypeOK'
    BY <2>1, <2>2 DEF SessTypeOK, Exists
  <2>4. ValidOnlyIfOpen'
    BY <2>1 DEF SessTypeOK, ValidOnlyIfOpen, IsSessionValid, Expiration, Exists
  <2> QED BY <2>3, <2>4
<1>3. ASSUME NEW id \in SessionId, NEW sender \in Account, RevokeSession(id, sender)
      PROVE  SessTypeOK' /\ ValidOnlyIfOpen'
  <2>1. /\ UNCHANGED now /\ DOMAIN sessions' = SessionId
        /\ sessions'[id] = NoSession
        /\ \A other \in SessionId \ {id} : sessions'[other] = sessions[other]
    BY <1>3 DEF RevokeSession, SessTypeOK
  <2>2. SessTypeOK'
    BY <2>1 DEF SessTypeOK, Exists
  <2>3. ValidOnlyIfOpen'
    BY <2>1 DEF SessTypeOK, ValidOnlyIfOpen, IsSessionValid, Expiration, Exists
  <2> QED BY <2>2, <2>3
<1>4. CASE \E sender \in Account, new \in Account \cup {HandlerAddress} :
             SetContextHandler(sender, new)
  BY <1>4 DEF SetContextHandler, SessTypeOK, ValidOnlyIfOpen, IsSessionValid, Expiration, Exists
<1>5. CASE NextBlock
  <2>1. UNCHANGED sessions /\ now' = now + 1
    BY <1>5 DEF NextBlock
  <2>2. \A id \in SessionId : Exists(id) => sessions[id].expiration \in Nat
    BY DEF SessTypeOK
  <2>3. SessTypeOK'
    BY <2>1 DEF SessTypeOK, Exists
  <2>4. ValidOnlyIfOpen'
    BY <2>1, <2>2 DEF SessTypeOK, ValidOnlyIfOpen, IsSessionValid, Expiration, Exists
  <2> QED BY <2>3, <2>4
<1> QED BY <1>1, <1>2, <1>3, <1>4, <1>5 DEF SRNext, SessionCall, SessVars

\* The steps of the composed registries are steps of the DID registry.
LEMMA RegistryStep == [SRNext]_SessVars => [DIDNext]_didVars
BY DEF SRNext, SessVars

LEMMA SessionsRegistry == SRSpec => DIDSpec
<1>1. SRInit => DIDInit
  BY DEF SRInit
<1> QED BY <1>1, RegistryStep, PTL DEF SRSpec, DIDSpec

\* The types of the session registry and what its answers rest on, whatever the
\* DID registry does beside it (SessionRegistryBase.sol).
THEOREM SessionInvariant == SRSpec => [](SessTypeOK /\ ValidOnlyIfOpen)
<1>1. SRInit => SessTypeOK /\ ValidOnlyIfOpen
  BY SessionInit DEF SRInit
<1>2. SessTypeOK /\ ValidOnlyIfOpen /\ [SRNext]_SessVars => SessTypeOK' /\ ValidOnlyIfOpen'
  BY SessionStep
<1> QED BY <1>1, <1>2, PTL DEF SRSpec

\* A session is never valid without existing, nor for longer than one duration from
\* now, although isSessionValid only compares times (SessionRegistry.sol).
THEOREM SessionsValidOnlyIfOpen == SRSpec => []ValidOnlyIfOpen
BY SessionInvariant, PTL

LEMMA NotRenewedStep ==
  ASSUME SessTypeOK, [SRNext]_SessVars, NEW id \in SessionId, Exists(id)
  PROVE  \/ sessions'[id] = sessions[id] /\ (IsSessionValid(id)' => IsSessionValid(id))
         \/ /\ sessions'[id] = NoSession
            /\ \E sender \in Account :
                 IsController(sessions[id].user, sender) \/ sender = contextHandler
<1>1. sessions[id].expiration \in Nat /\ now \in Nat
  BY DEF SessTypeOK
<1>2. ASSUME sessions'[id] = sessions[id], now' \in {now, now + 1}
      PROVE  IsSessionValid(id)' => IsSessionValid(id)
  BY <1>1, <1>2 DEF IsSessionValid, Expiration, Exists
<1>3. CASE UNCHANGED sessVars
  BY <1>2, <1>3 DEF sessVars
<1>4. ASSUME NEW other \in SessionId, NEW user \in DID, StartSession(other, user)
      PROVE  sessions'[id] = sessions[id] /\ now' = now
  BY <1>4 DEF StartSession, SessTypeOK
<1>5. ASSUME NEW other \in SessionId, NEW sender \in Account, RevokeSession(other, sender)
      PROVE  \/ sessions'[id] = sessions[id] /\ now' = now
             \/ /\ sessions'[id] = NoSession
                /\ IsController(sessions[id].user, sender) \/ sender = contextHandler
  BY <1>5 DEF RevokeSession, SessTypeOK
<1>6. ASSUME \/ NextBlock
             \/ \E sender \in Account, new \in Account \cup {HandlerAddress} :
                  SetContextHandler(sender, new)
      PROVE  sessions'[id] = sessions[id] /\ now' \in {now, now + 1}
  BY <1>6 DEF NextBlock, SetContextHandler
<1> QED BY <1>2, <1>3, <1>4, <1>5, <1>6 DEF SRNext, SessionCall, SessVars

\* An expired session is not made valid again, for its user or another, by any
\* calls: it is revoked first, by who may then (startSession, revokeSession).
THEOREM SessionsNeverRenewed == SRSpec => NeverRenewed
<1>1. SessTypeOK /\ [SRNext]_SessVars =>
        [\A id \in SessionId : Exists(id) =>
           \/ sessions'[id] = sessions[id] /\ (IsSessionValid(id)' => IsSessionValid(id))
           \/ /\ sessions'[id] = NoSession
              /\ \E sender \in Account :
                   IsController(sessions[id].user, sender) \/ sender = contextHandler]_SessVars
  BY NotRenewedStep
<1> QED BY <1>1, SessionInvariant, PTL DEF SRSpec, NeverRenewed

\* A session of a user whose identity is locked.
LockedIn(id, d) ==
  /\ Exists(id) /\ sessions[id].user = d
  /\ controllers[d] # <<>> /\ GetController(d) = ZeroAddress
  /\ Len(controllers[d]) > 1

LEMMA LockedInStep ==
  ASSUME DIDIInv, SessTypeOK, [SRNext]_SessVars, NEW id \in SessionId, NEW d \in DID,
         LockedIn(id, d)
  PROVE  LockedIn(id, d)'
<1>1. controllers'[d] = controllers[d] /\ GetController(d)' = ZeroAddress
  BY RegistryStep, LockedStep DEF LockedIn
<1>2. ~IdentityFound(d)
  <2>1. Len(controllers[d]) \in Nat
    BY LenProperties DEF DIDIInv, DIDTypeOK
  <2>2. Len(controllers[d]) # 1
    <3>1. \A n \in Nat : n > 1 => n # 1
      OBVIOUS
    <3> QED BY <2>1, <3>1, Zenon DEF LockedIn
  <2> QED BY <2>2 DEF LockedIn, IdentityFound, Found, GetController
<1>3. sessions'[id] = sessions[id]
  <2>1. CASE UNCHANGED sessVars
    BY <2>1 DEF sessVars
  <2>2. ASSUME NEW other \in SessionId, NEW user \in DID, StartSession(other, user)
        PROVE  sessions'[id] = sessions[id]
    BY <2>2 DEF StartSession, SessTypeOK, LockedIn
  <2>3. ASSUME NEW other \in SessionId, NEW sender \in Account, RevokeSession(other, sender)
        PROVE  sessions'[id] = sessions[id]
    BY <1>2, <2>3 DEF RevokeSession, SessTypeOK, LockedIn
  <2>4. CASE \/ NextBlock
             \/ \E sender \in Account, new \in Account \cup {HandlerAddress} :
                  SetContextHandler(sender, new)
    BY <2>4 DEF NextBlock, SetContextHandler
  <2> QED BY <2>1, <2>2, <2>3, <2>4 DEF SRNext, SessionCall, SessVars
<1> QED BY <1>1, <1>3 DEF LockedIn, Exists

LEMMA LockedInForever == SRSpec => LockedSessionStays
<1>1. ASSUME NEW id \in SessionId, NEW d \in DID
      PROVE  SRSpec =>
        [](Exists(id) /\ sessions[id].user = d
             /\ controllers[d] # <<>> /\ GetController(d) = ZeroAddress
             /\ Len(controllers[d]) > 1
           => [](Exists(id) /\ sessions[id].user = d))
  <2>1. DIDIInv /\ (SessTypeOK /\ ValidOnlyIfOpen) /\ LockedIn(id, d) /\ [SRNext]_SessVars
          => LockedIn(id, d)'
    BY LockedInStep
  <2>2. LockedIn(id, d) => Exists(id) /\ sessions[id].user = d
    BY DEF LockedIn
  <2>3. Exists(id) /\ sessions[id].user = d
          /\ controllers[d] # <<>> /\ GetController(d) = ZeroAddress
          /\ Len(controllers[d]) > 1
        => LockedIn(id, d)
    BY DEF LockedIn
  <2> QED BY <2>1, <2>2, <2>3, SessionsRegistry, RegistryInvariant, SessionInvariant, PTL
          DEF SRSpec
<1> QED BY <1>1 DEF LockedSessionStays

\* A session whose user's identity is locked keeps its identifier for ever: neither
\* a controller nor the context handler revokes it (SessionRegistry.sol).
THEOREM LockedSessionsStay == SRSpec => LockedSessionStays
BY LockedInForever

------------------------------------------------------------------------------
\* Some account acts for the owner of instance i.
Owned(i) == \E sender \in Account : OnlyOwner(i, sender)

\* What a call of instance i may do.  Every property of the instances is read off
\* this: the other instances are left alone, only the owner changes policies and
\* what roles have, a verifier is registered once, and init changes nothing else.
Effect(i) ==
  /\ UNCHANGED <<contexts, deployed>>
  /\ CtxTypeOK'
  /\ \A j \in Deployable \ {i} :
       /\ owner'[j] = owner[j] /\ thisContext'[j] = thisContext[j]
       /\ handler'[j] = handler[j] /\ didRegistry'[j] = didRegistry[j]
       /\ hasRole'[j] = hasRole[j] /\ policies'[j] = policies[j]
       /\ rolePolicies'[j] = rolePolicies[j] /\ rolePermissions'[j] = rolePermissions[j]
  /\ \/ Owned(i) /\ UNCHANGED <<thisContext, handler, didRegistry>>
     \/ UNCHANGED <<policies, rolePolicies, rolePermissions, configVars>>
     \/ Reinitialised(i) /\ UNCHANGED aclVars
  /\ \A k \in PolicyKey : policies'[i][k] = policies[i][k] \/ policies[i][k] = NoVerifier

\* The internal functions, each with what it writes.
LEMMA RegisterPolicyType ==
  ASSUME CtxTypeOK, NEW i \in Deployable, NEW key \in PolicyKey, NEW verifier \in Verifier,
         RegisterPolicyIn(i, key, verifier)
  PROVE  /\ policies' \in [Deployable -> [PolicyKey -> Verifier \cup {NoVerifier}]]
         /\ \A j \in Deployable \ {i} : policies'[j] = policies[j]
         /\ \A k \in PolicyKey : policies'[i][k] = policies[i][k] \/ policies[i][k] = NoVerifier
<1> DEFINE new == [policies[i] EXCEPT ![key] = verifier]
<1>1. policies' = [policies EXCEPT ![i] = new] /\ policies[i][key] = NoVerifier
  BY DEF RegisterPolicyIn
<1>2. policies[i] \in [PolicyKey -> Verifier \cup {NoVerifier}]
  BY DEF CtxTypeOK
<1>3. new \in [PolicyKey -> Verifier \cup {NoVerifier}]
  BY <1>2
<1>4. \A k \in PolicyKey : new[k] = policies[i][k] \/ policies[i][k] = NoVerifier
  BY <1>1, <1>2
<1> HIDE DEF new
<1>5. policies'[i] = new /\ \A j \in Deployable \ {i} : policies'[j] = policies[j]
  BY <1>1 DEF CtxTypeOK
<1>6. policies' \in [Deployable -> [PolicyKey -> Verifier \cup {NoVerifier}]]
  BY <1>1, <1>3 DEF CtxTypeOK
<1> QED BY <1>4, <1>5, <1>6

LEMMA AssignPolicyType ==
  ASSUME CtxTypeOK, NEW i \in Deployable, NEW role \in Role, NEW key \in PolicyKey,
         AssignPolicyToRole(i, role, key)
  PROVE  /\ rolePolicies' \in [Deployable -> [RoleKey -> SUBSET PolicyKey]]
         /\ policyCount' \in [Deployable -> [RoleKey -> Nat]]
         /\ \A j \in Deployable \ {i} : rolePolicies'[j] = rolePolicies[j]
<1> DEFINE k == <<thisContext[i], role>>
           given == [rolePolicies[i] EXCEPT ![k] = @ \cup {key}]
           counted == [policyCount[i] EXCEPT ![k] = @ + 1]
<1>1. k \in RoleKey
  BY DEF CtxTypeOK, RoleKey
<1>2. /\ rolePolicies' = [rolePolicies EXCEPT ![i] = given]
      /\ policyCount' = [policyCount EXCEPT ![i] = counted]
  BY DEF AssignPolicyToRole
<1> HIDE DEF k
<1>3. given \in [RoleKey -> SUBSET PolicyKey]
  BY <1>1 DEF CtxTypeOK
<1>4. counted \in [RoleKey -> Nat]
  BY <1>1 DEF CtxTypeOK
<1> HIDE DEF given, counted
<1> QED BY <1>2, <1>3, <1>4 DEF CtxTypeOK

LEMMA RegisterPermissionType ==
  ASSUME CtxTypeOK, NEW i \in Deployable, NEW permission \in Permission,
         NEW resource \in Resource, NEW operations \in SUBSET Operation,
         RegisterPermissionForResource(i, permission, resource, operations)
  PROVE  permissions' \in [Deployable -> SUBSET (Permission \X Resource \X Operation)]
<1>1. {permission} \X {resource} \X operations \subseteq Permission \X Resource \X Operation
  OBVIOUS
<1> QED BY <1>1 DEF CtxTypeOK, RegisterPermissionForResource

LEMMA AssignPermissionType ==
  ASSUME CtxTypeOK, NEW i \in Deployable, NEW roleContext \in ContextId, NEW role \in Role,
         NEW permission \in Permission,
         AssignPermissionToRole(i, roleContext, role, permission)
  PROVE  /\ rolePermissions' \in [Deployable -> SUBSET (ContextId \X Role \X Permission)]
         /\ \A j \in Deployable \ {i} : rolePermissions'[j] = rolePermissions[j]
BY DEF CtxTypeOK, AssignPermissionToRole

LEMMA GrantEffect ==
  ASSUME CtxTypeOK, NEW i \in deployed, NEW role \in Role, NEW did \in DID,
         NEW claimed \in SUBSET PolicyKey, GrantRole(i, role, did, claimed)
  PROVE  Effect(i)
<1>1. /\ hasRole' = [hasRole EXCEPT ![i] = @ \cup {<<role, did>>}]
      /\ UNCHANGED <<contexts, deployed, owner, thisContext, handler, didRegistry, policies,
                     rolePolicies, policyCount, permissions, rolePermissions>>
  BY DEF GrantRole, configVars, policyVars, permissionVars
<1>2. i \in Deployable
  BY DEF CtxTypeOK
<1>3. hasRole' \in [Deployable -> SUBSET (Role \X DID)]
  BY <1>1 DEF CtxTypeOK
<1>4. CtxTypeOK'
  BY <1>1, <1>3 DEF CtxTypeOK
<1> QED BY <1>1, <1>2, <1>4 DEF Effect, CtxTypeOK, configVars

LEMMA RoleEffect == ASSUME CtxTypeOK, NEW i \in deployed, RoleCall(i) PROVE Effect(i)
<1>1. ASSUME NEW role \in Role, NEW did \in DID, NEW claimed \in SUBSET PolicyKey,
             GrantRole(i, role, did, claimed)
      PROVE  Effect(i)
  BY <1>1, GrantEffect
<1>2. ASSUME NEW role \in Role, NEW did \in DID, NEW sender \in Account,
             RevokeRole(i, sender, role, did)
      PROVE  Effect(i)
  <2>1. /\ hasRole' = [hasRole EXCEPT ![i] = @ \ {<<role, did>>}]
        /\ UNCHANGED <<contexts, deployed, owner, thisContext, handler, didRegistry,
                       policies, rolePolicies, policyCount, permissions, rolePermissions>>
    BY <1>2 DEF RevokeRole, configVars, policyVars, permissionVars
  <2>2. i \in Deployable
    BY DEF CtxTypeOK
  <2>3. hasRole' \in [Deployable -> SUBSET (Role \X DID)]
    BY <2>1 DEF CtxTypeOK
  <2>4. CtxTypeOK'
    BY <2>1, <2>3 DEF CtxTypeOK
  <2> QED BY <2>1, <2>2, <2>4 DEF Effect, CtxTypeOK, configVars
<1> QED BY <1>1, <1>2 DEF RoleCall

LEMMA PolicyEffect ==
  ASSUME CtxTypeOK, NEW i \in deployed, NEW sender \in Account, PolicyCall(i, sender)
  PROVE  Effect(i)
<1>0. i \in Deployable /\ thisContext[i] \in ContextId
  BY DEF CtxTypeOK
<1>1. ASSUME NEW policy \in PolicyId, NEW verifier \in Verifier,
             RegisterPolicy(i, sender, policy, verifier)
      PROVE  Effect(i)
  <2> DEFINE key == <<thisContext[i], policy>>
  <2>1. /\ Owned(i) /\ RegisterPolicyIn(i, key, verifier)
        /\ UNCHANGED <<contexts, deployed, owner, thisContext, handler, didRegistry,
                       hasRole, rolePolicies, policyCount, permissions, rolePermissions>>
    BY <1>1 DEF RegisterPolicy, configVars, Owned, permissionVars
  <2>2. key \in PolicyKey
    BY <1>0 DEF PolicyKey
  <2> HIDE DEF key
  <2>3. CtxTypeOK'
    BY <1>0, <2>1, <2>2, RegisterPolicyType DEF CtxTypeOK
  <2> QED BY <1>0, <2>1, <2>2, <2>3, RegisterPolicyType DEF Effect, configVars
<1>2. ASSUME NEW policy \in PolicyId, NEW verifier \in Verifier, NEW role \in Role,
             RegisterPolicyForRole(i, sender, role, policy, verifier)
      PROVE  Effect(i)
  <2> DEFINE key == <<thisContext[i], policy>>
  <2>1. /\ Owned(i) /\ RegisterPolicyIn(i, key, verifier) /\ AssignPolicyToRole(i, role, key)
        /\ UNCHANGED <<contexts, deployed, owner, thisContext, handler, didRegistry,
                       hasRole, permissions, rolePermissions>>
    BY <1>2 DEF RegisterPolicyForRole, configVars, Owned, permissionVars
  <2>2. key \in PolicyKey
    BY <1>0 DEF PolicyKey
  <2> HIDE DEF key
  <2>3. CtxTypeOK'
    BY <1>0, <2>1, <2>2, RegisterPolicyType, AssignPolicyType DEF CtxTypeOK
  <2> QED BY <1>0, <2>1, <2>2, <2>3, RegisterPolicyType, AssignPolicyType DEF Effect, configVars
<1>3. ASSUME NEW policy \in PolicyId, NEW role \in Role, NEW c \in ContextId,
             AssignPolicy(i, sender, role, <<c, policy>>)
      PROVE  Effect(i)
  <2>1. /\ Owned(i) /\ AssignPolicyToRole(i, role, <<c, policy>>)
        /\ UNCHANGED <<contexts, deployed, owner, thisContext, handler, didRegistry,
                       hasRole, policies, permissions, rolePermissions>>
    BY <1>3 DEF AssignPolicy, configVars, Owned, permissionVars
  <2>2. <<c, policy>> \in PolicyKey
    BY DEF PolicyKey
  <2>3. CtxTypeOK'
    BY <1>0, <2>1, <2>2, AssignPolicyType DEF CtxTypeOK
  <2> QED BY <1>0, <2>1, <2>2, <2>3, AssignPolicyType DEF Effect, configVars
<1> QED BY <1>1, <1>2, <1>3 DEF PolicyCall

LEMMA PermissionEffect ==
  ASSUME CtxTypeOK, NEW i \in deployed, NEW sender \in Account, PermissionCall(i, sender)
  PROVE  Effect(i)
<1> SUFFICES ASSUME NEW permission \in Permission, NEW role \in Role,
                    NEW roleContext \in ContextId,
    \/ AssignPermission(i, sender, permission, roleContext, role)
    \/ UnassignPermission(i, sender, permission, roleContext, role)
    \/ \E resource \in Resource, operations \in SUBSET Operation :
         \/ RegisterPermission(i, permission, resource, operations)
         \/ RegisterPermissionForRole(i, sender, permission, resource, operations,
                                      roleContext, role)
         \/ \E policy \in PolicyId :
              SetupRole(i, sender, role, <<roleContext, policy>>, permission, resource, operations)
         \/ \E policy \in PolicyId, verifier \in Verifier :
              SetupRoleWithPolicy(i, sender, role, policy, permission, resource,
                                  operations, verifier)
             PROVE  Effect(i)
  BY DEF PermissionCall
<1>0. i \in Deployable /\ thisContext[i] \in ContextId
  BY DEF CtxTypeOK
<1>1. CASE AssignPermission(i, sender, permission, roleContext, role)
  <2>1. /\ Owned(i) /\ AssignPermissionToRole(i, roleContext, role, permission)
        /\ UNCHANGED <<contexts, deployed, owner, thisContext, handler, didRegistry,
                       hasRole, policies, rolePolicies, policyCount, permissions>>
    BY <1>1 DEF AssignPermission, configVars, Owned, policyVars
  <2>2. CtxTypeOK'
    BY <1>0, <2>1, AssignPermissionType DEF CtxTypeOK
  <2> QED BY <1>0, <2>1, <2>2, AssignPermissionType DEF Effect, configVars
<1>2. CASE UnassignPermission(i, sender, permission, roleContext, role)
  <2>1. /\ Owned(i)
        /\ rolePermissions' = [rolePermissions EXCEPT ![i] = @ \ {<<roleContext, role, permission>>}]
        /\ UNCHANGED <<contexts, deployed, owner, thisContext, handler, didRegistry,
                       hasRole, policies, rolePolicies, policyCount, permissions>>
    BY <1>2 DEF UnassignPermission, configVars, Owned, policyVars
  <2>2. /\ rolePermissions' \in [Deployable -> SUBSET (ContextId \X Role \X Permission)]
        /\ \A j \in Deployable \ {i} : rolePermissions'[j] = rolePermissions[j]
    BY <1>0, <2>1 DEF CtxTypeOK
  <2>3. CtxTypeOK'
    BY <1>0, <2>1, <2>2 DEF CtxTypeOK
  <2> QED BY <1>0, <2>1, <2>2, <2>3 DEF Effect, configVars
<1>3. ASSUME NEW resource \in Resource, NEW operations \in SUBSET Operation,
             RegisterPermission(i, permission, resource, operations)
      PROVE  Effect(i)
  <2>1. /\ RegisterPermissionForResource(i, permission, resource, operations)
        /\ UNCHANGED <<contexts, deployed, owner, thisContext, handler, didRegistry,
                       hasRole, policies, rolePolicies, policyCount, rolePermissions>>
    BY <1>3 DEF RegisterPermission, configVars, policyVars
  <2>2. CtxTypeOK'
    BY <1>0, <2>1, RegisterPermissionType DEF CtxTypeOK
  <2> QED BY <1>0, <2>1, <2>2 DEF Effect, configVars
<1>4. ASSUME NEW resource \in Resource, NEW operations \in SUBSET Operation,
             RegisterPermissionForRole(i, sender, permission, resource, operations,
                                       roleContext, role)
      PROVE  Effect(i)
  <2>1. /\ Owned(i) /\ RegisterPermissionForResource(i, permission, resource, operations)
        /\ AssignPermissionToRole(i, roleContext, role, permission)
        /\ UNCHANGED <<contexts, deployed, owner, thisContext, handler, didRegistry,
                       hasRole, policies, rolePolicies, policyCount>>
    BY <1>4 DEF RegisterPermissionForRole, configVars, Owned, policyVars
  <2>2. CtxTypeOK'
    BY <1>0, <2>1, RegisterPermissionType, AssignPermissionType DEF CtxTypeOK
  <2> QED BY <1>0, <2>1, <2>2, AssignPermissionType DEF Effect, configVars
<1>5. ASSUME NEW resource \in Resource, NEW operations \in SUBSET Operation,
             NEW policy \in PolicyId,
             SetupRole(i, sender, role, <<roleContext, policy>>, permission, resource, operations)
      PROVE  Effect(i)
  <2>1. /\ Owned(i) /\ AssignPolicyToRole(i, role, <<roleContext, policy>>)
        /\ RegisterPermissionForResource(i, permission, resource, operations)
        /\ AssignPermissionToRole(i, thisContext[i], role, permission)
        /\ UNCHANGED <<contexts, deployed, owner, thisContext, handler, didRegistry,
                       hasRole, policies>>
    BY <1>5 DEF SetupRole, configVars, Owned
  <2>2. <<roleContext, policy>> \in PolicyKey
    BY DEF PolicyKey
  <2>3. CtxTypeOK'
    BY <1>0, <2>1, <2>2, RegisterPermissionType, AssignPermissionType, AssignPolicyType
       DEF CtxTypeOK
  <2> QED BY <1>0, <2>1, <2>2, <2>3, AssignPermissionType, AssignPolicyType DEF Effect, configVars
<1>6. ASSUME NEW resource \in Resource, NEW operations \in SUBSET Operation,
             NEW policy \in PolicyId, NEW verifier \in Verifier,
             SetupRoleWithPolicy(i, sender, role, policy, permission, resource, operations,
                                 verifier)
      PROVE  Effect(i)
  <2> DEFINE key == <<thisContext[i], policy>>
  <2>1. /\ Owned(i) /\ RegisterPolicyIn(i, key, verifier) /\ AssignPolicyToRole(i, role, key)
        /\ RegisterPermissionForResource(i, permission, resource, operations)
        /\ AssignPermissionToRole(i, thisContext[i], role, permission)
        /\ UNCHANGED <<contexts, deployed, owner, thisContext, handler, didRegistry,
                       hasRole>>
    BY <1>6 DEF SetupRoleWithPolicy, configVars, Owned
  <2>2. key \in PolicyKey
    BY <1>0 DEF PolicyKey
  <2> HIDE DEF key
  <2>3. CtxTypeOK'
    BY <1>0, <2>1, <2>2, RegisterPolicyType, RegisterPermissionType, AssignPermissionType,
       AssignPolicyType DEF CtxTypeOK
  <2> QED BY <1>0, <2>1, <2>2, <2>3, RegisterPolicyType, AssignPermissionType, AssignPolicyType
          DEF Effect, configVars
<1> QED BY <1>1, <1>2, <1>3, <1>4, <1>5, <1>6

LEMMA OwnershipEffect == ASSUME CtxTypeOK, NEW i \in deployed, OwnershipCall(i) PROVE Effect(i)
<1>0. i \in Deployable
  BY DEF CtxTypeOK
<1>1. ASSUME NEW sender \in Account, NEW newOwner \in DID, TransferOwnership(i, sender, newOwner)
      PROVE  Effect(i)
  <2>1. /\ Owned(i) /\ owner' = [owner EXCEPT ![i] = newOwner]
        /\ UNCHANGED <<contexts, deployed, thisContext, handler, didRegistry, aclVars>>
        /\ UNCHANGED <<hasRole, policies, rolePolicies, policyCount, permissions, rolePermissions>>
    BY <1>1 DEF TransferOwnership, Owned, aclVars, policyVars, permissionVars
  <2>2. CtxTypeOK'
    BY <1>0, <2>1 DEF CtxTypeOK
  <2> QED BY <1>0, <2>1, <2>2 DEF Effect, CtxTypeOK, configVars
<1>2. ASSUME NEW sender \in Account, RenounceOwnership(i, sender) PROVE Effect(i)
  BY <1>1, <1>2, EmptyDIDAssumption DEF RenounceOwnership
<1>3. ASSUME NEW initialOwner \in DID, NEW id \in InitContextId,
             NEW newHandler \in Party, NEW newRegistry \in Party,
             Init(i, initialOwner, id, newHandler, newRegistry)
      PROVE  Effect(i)
  <2>0. Reinitialised(i)
    BY <1>3 DEF Reinitialised
  <2>1. /\ owner' = [owner EXCEPT ![i] = initialOwner]
        /\ thisContext' = [thisContext EXCEPT ![i] = id]
        /\ handler' = [handler EXCEPT ![i] = newHandler]
        /\ didRegistry' = [didRegistry EXCEPT ![i] = newRegistry]
        /\ UNCHANGED <<contexts, deployed, aclVars>>
        /\ UNCHANGED <<hasRole, policies, rolePolicies, policyCount, permissions, rolePermissions>>
    BY <1>3 DEF Init, aclVars, policyVars, permissionVars
  <2>2. CtxTypeOK'
    BY <1>0, <2>1, InitContextAssumption DEF CtxTypeOK
  <2> QED BY <1>0, <2>0, <2>1, <2>2 DEF Effect, CtxTypeOK, configVars
<1> QED BY <1>1, <1>2, <1>3 DEF OwnershipCall, Reinitialised

LEMMA ContextEffect == ASSUME CtxTypeOK, ContextCall PROVE \E i \in deployed : Effect(i)
BY RoleEffect, PolicyEffect, PermissionEffect, OwnershipEffect DEF ContextCall

------------------------------------------------------------------------------
\* What a step of the on-chain system is to the instances.
InstanceStep ==
  \/ UNCHANGED ctxVars
  \/ \E i \in deployed : Effect(i)
  \/ \E id \in ContextId, salt \in Salt, did \in DID : CreateContextInstance(id, salt, did)
  \/ \E id \in ContextId, sender \in Account : DeleteContextInstance(id, sender)

\* What a step is to the session registry and the handler's reference to it.
LEMMA SessionsOfStep == [HNext]_vars => [SRNext]_SessVars
BY DEF HNext, HandlerCall, CreateContextInstance, DeleteContextInstance, SetSessionRegistry,
       ForwardGrantRole, StartSessionOnly, StartSessionWithRole, ForwardStartSession,
       SRNext, SessionCall, SessVars, sessVars, vars

LEMMA InstancesOfStep ==
  ASSUME HInv, [HNext]_vars
  PROVE  InstanceStep
<1>0. CtxTypeOK /\ RegisteredExist
  BY DEF HInv
<1>1. CASE UNCHANGED vars
  BY <1>0, <1>1 DEF vars, InstanceStep
<1>2. CASE \/ \E id \in ContextId, salt \in Salt, did \in DID :
                CreateContextInstance(id, salt, did)
           \/ \E id \in ContextId, sender \in Account : DeleteContextInstance(id, sender)
  BY <1>0, <1>2 DEF CreateContextInstance, DeleteContextInstance, InstanceStep
<1>3. CASE \/ \E address \in {NoRegistry, RegistryAddress, ForeignRegistry} : SetSessionRegistry(address)
           \/ \E id \in SessionId, did \in DID : StartSessionOnly(id, did)
           \/ SessionCall /\ UNCHANGED <<ctxVars, didVars, sessionRegistry>>
           \/ DIDNext /\ UNCHANGED <<ctxVars, sessVars, sessionRegistry>>
  BY <1>0, <1>3 DEF SetSessionRegistry, StartSessionOnly, InstanceStep
<1>4. ASSUME NEW id \in ContextId, NEW role \in Role, NEW did \in DID,
             NEW claimed \in SUBSET PolicyKey,
             \/ ForwardGrantRole(id, role, did, claimed)
             \/ \E session \in SessionId : StartSessionWithRole(id, role, did, claimed, session)
      PROVE  InstanceStep
  <2>1. /\ contexts[id] \in deployed /\ GrantRole(contexts[id], role, did, claimed)
    BY <1>0, <1>4 DEF ForwardGrantRole, StartSessionWithRole, RegisteredExist
  <2>2. Effect(contexts[id])
    BY <1>0, <2>1, GrantEffect
  <2> QED BY <2>1, <2>2 DEF InstanceStep
<1>5. CASE ContextCall /\ UNCHANGED <<sessVars, didVars, sessionRegistry>>
  BY <1>0, <1>5, ContextEffect DEF InstanceStep
<1> QED BY <1>0, <1>1, <1>2, <1>3, <1>4, <1>5 DEF HNext, HandlerCall

LEMMA HandlerInit == HInit => HInv
<1> SUFFICES ASSUME HInit PROVE HInv
  OBVIOUS
<1>1. \A i \in Deployable : i[3] \in ContextId
  BY DeployableAssumption
<1>2. CtxTypeOK
  BY <1>1, EmptyDIDAssumption DEF HInit, CtxInit, CtxTypeOK, Party
<1> QED BY <1>2, SessionInit DEF HInit, CtxInit, HInv, RegisteredExist, FreshHasNoRoles

LEMMA HandlerStep == ASSUME HInv, [HNext]_vars PROVE HInv'
<1>0. CtxTypeOK /\ RegisteredExist /\ FreshHasNoRoles
  BY DEF HInv
<1>1. CtxTypeOK' /\ RegisteredExist' /\ FreshHasNoRoles'
  <2>1. CASE UNCHANGED ctxVars
    BY <1>0, <2>1 DEF CtxTypeOK, RegisteredExist, FreshHasNoRoles, ctxVars, configVars, aclVars,
       policyVars, permissionVars
  <2>2. ASSUME NEW i \in deployed, Effect(i)
        PROVE  CtxTypeOK' /\ RegisteredExist' /\ FreshHasNoRoles'
    BY <1>0, <2>2 DEF Effect, RegisteredExist, FreshHasNoRoles
  <2>3. ASSUME NEW id \in ContextId, NEW salt \in Salt, NEW did \in DID,
               CreateContextInstance(id, salt, did)
        PROVE  CtxTypeOK' /\ RegisteredExist' /\ FreshHasNoRoles'
    <3> DEFINE i == <<salt, did, id>>
    <3>1. /\ i \in Deployable /\ deployed' = deployed \cup {i}
          /\ owner' = [owner EXCEPT ![i] = did]
          /\ thisContext' = [thisContext EXCEPT ![i] = id]
          /\ handler' = [handler EXCEPT ![i] = "deployed"]
          /\ didRegistry' = [didRegistry EXCEPT ![i] = "deployed"]
          /\ contexts' = [contexts EXCEPT ![id] = i]
          /\ UNCHANGED <<hasRole, policies, rolePolicies, policyCount, permissions,
                         rolePermissions>>
      BY <2>3 DEF CreateContextInstance, aclVars, policyVars, permissionVars
    <3> HIDE DEF i
    <3>2. CtxTypeOK'
      BY <1>0, <3>1 DEF CtxTypeOK, Party
    <3>3. RegisteredExist' /\ FreshHasNoRoles'
      BY <1>0, <3>1 DEF CtxTypeOK, RegisteredExist, FreshHasNoRoles
    <3> QED BY <3>2, <3>3
  <2>4. ASSUME NEW id \in ContextId, NEW sender \in Account, DeleteContextInstance(id, sender)
        PROVE  CtxTypeOK' /\ RegisteredExist' /\ FreshHasNoRoles'
    <3>1. /\ contexts' = [contexts EXCEPT ![id] = NoInstance]
          /\ UNCHANGED <<deployed, owner, thisContext, handler, didRegistry, hasRole,
                         policies, rolePolicies, policyCount, permissions, rolePermissions>>
      BY <2>4 DEF DeleteContextInstance, configVars, aclVars, policyVars, permissionVars
    <3> QED BY <1>0, <3>1 DEF CtxTypeOK, RegisteredExist, FreshHasNoRoles
  <2> QED BY <2>1, <2>2, <2>3, <2>4, InstancesOfStep DEF InstanceStep
<1>2. SessTypeOK' /\ ValidOnlyIfOpen'
  BY SessionsOfStep, SessionStep DEF HInv
<1> QED BY <1>1, <1>2, InstancesOfStep DEF HInv

\* The invariant of the four contracts: what is registered was deployed, a clone is
\* made without roles, and the session registry keeps its own (AccessContextHandler.sol).
THEOREM HandlerInvariant == HSpec => []HInv
<1>1. HInv /\ [HNext]_vars => HInv'
  BY HandlerStep
<1> QED BY <1>1, HandlerInit, PTL DEF HSpec

LEMMA HandlerIsSessions == HSpec => SRSpec
<1>1. HInit => SRInit
  BY DEF HInit, SRInit
<1> QED BY <1>1, SessionsOfStep, PTL DEF HSpec, SRSpec

LEMMA HandlerIsRegistry == HSpec => DIDSpec
BY HandlerIsSessions, SessionsRegistry, PTL

\* The session registry promises the same beside the handler, which may start
\* sessions, and the access contexts, which may change anything else.
THEOREM HandlerSessions == HSpec => []ValidOnlyIfOpen /\ LockedSessionStays
BY HandlerIsSessions, SessionInvariant, LockedInForever, PTL

------------------------------------------------------------------------------
\* A session that exists becomes valid for nobody (isSession in SessionRegistry.sol).
LEMMA OpenSessionStep ==
  ASSUME SessTypeOK, [SRNext]_SessVars, NEW id \in SessionId, NEW did \in DID, Exists(id),
         IsSession(id, did)'
  PROVE  IsSession(id, did)
<1>1. sessions'[id] = sessions[id] /\ (IsSessionValid(id)' => IsSessionValid(id))
  BY NotRenewedStep DEF IsSession, Exists
<1> QED BY <1>1 DEF IsSession, Exists

LEMMA AccessStep ==
  ASSUME HInv, [HNext]_vars, NEW id \in SessionId, NEW did \in DID, NEW c \in ContextId,
         NEW r \in Role, ~HasAccess(id, did, c, r), HasAccess(id, did, c, r)'
  PROVE  \/ contexts'[c] = contexts[c] /\ <<r, did>> \notin hasRole[contexts[c]]
         \/ ~Exists(id)
         \/ sessionRegistry' # sessionRegistry
<1> SUFFICES ASSUME Exists(id), sessionRegistry' = sessionRegistry
             PROVE  contexts'[c] = contexts[c] /\ <<r, did>> \notin hasRole[contexts[c]]
  OBVIOUS
<1>1. \/ sessionRegistry = RegistryAddress /\ IsSession(id, did)
      \/ sessionRegistry = ForeignRegistry
  BY SessionsOfStep, OpenSessionStep DEF HInv, HasAccess
<1>2. contexts'[c] # NoInstance /\ <<r, did>> \in hasRole'[contexts'[c]]
  BY DEF HasAccess
<1>3. contexts[c] # NoInstance => <<r, did>> \notin hasRole[contexts[c]]
  BY <1>1 DEF HasAccess
<1>4. contexts'[c] = contexts[c]
  <2>1. CASE UNCHANGED ctxVars \/ \E i \in deployed : Effect(i)
    BY <2>1 DEF ctxVars, Effect
  <2>2. ASSUME NEW id2 \in ContextId, NEW salt \in Salt, NEW did2 \in DID,
               CreateContextInstance(id2, salt, did2), contexts'[c] # contexts[c]
        PROVE  FALSE
    <3> DEFINE i == <<salt, did2, id2>>
    <3>1. /\ i \in Deployable \ deployed /\ contexts' = [contexts EXCEPT ![id2] = i]
          /\ hasRole' = hasRole
      BY <2>2 DEF CreateContextInstance, aclVars
    <3> HIDE DEF i
    <3>2. contexts'[c] = i
      BY <2>2, <3>1 DEF HInv, CtxTypeOK
    <3> QED BY <1>2, <3>1, <3>2 DEF HInv, FreshHasNoRoles
  <2>3. ASSUME NEW id2 \in ContextId, NEW sender \in Account, DeleteContextInstance(id2, sender)
        PROVE  contexts'[c] = contexts[c]
    BY <1>2, <2>3 DEF DeleteContextInstance, HInv, CtxTypeOK
  <2> QED BY <2>1, <2>2, <2>3, InstancesOfStep DEF InstanceStep
<1> QED BY <1>2, <1>3, <1>4

\* With any contract as the session registry, access is opened by a grant, a session
\* or the setting of a registry, and by no deletion, new creation or call of init
\* (AccessContextHandler.sol, SessionRecipient.sol).
THEOREM AccessNeedsGrant == HSpec => AccessNeedsGrantOrSession
<1>1. HInv /\ [HNext]_vars =>
        [\A id \in SessionId, did \in DID, c \in ContextId, r \in Role :
           ~HasAccess(id, did, c, r) /\ HasAccess(id, did, c, r)' =>
             \/ contexts'[c] = contexts[c] /\ <<r, did>> \notin hasRole[contexts[c]]
             \/ ~Exists(id)
             \/ sessionRegistry' # sessionRegistry]_vars
  BY AccessStep
<1> QED BY <1>1, HandlerInvariant, PTL DEF HSpec, AccessNeedsGrantOrSession

------------------------------------------------------------------------------
\* What is kept of an instance whose owner is locked.
Frozen(i) ==
  /\ OwnerLocked(i)'
  /\ owner'[i] = owner[i]
  /\ policies'[i] = policies[i]
  /\ rolePolicies'[i] = rolePolicies[i]
  /\ rolePermissions'[i] = rolePermissions[i]
  /\ \A c \in ContextId : contexts[c] = i => contexts'[c] = i

LEMMA FrozenStep ==
  ASSUME DIDIInv, HInv, [HNext]_vars, NEW i \in deployed, OwnerLocked(i)
  PROVE  Frozen(i) \/ Reinitialised(i)
<1> DEFINE Same(x) ==
      /\ owner'[x] = owner[x] /\ didRegistry'[x] = didRegistry[x]
      /\ policies'[x] = policies[x] /\ rolePolicies'[x] = rolePolicies[x]
      /\ rolePermissions'[x] = rolePermissions[x]
      /\ \A c \in ContextId : contexts[c] = x => contexts'[c] = x
<1>1. /\ i \in Deployable /\ i # NoInstance /\ owner[i] \in DID
      /\ deployed \subseteq Deployable
  BY NoInstanceAssumption DEF HInv, CtxTypeOK
<1>2. ~Owned(i)
  BY <1>1, ZeroAssumption DEF OwnerLocked, Owned, OnlyOwner, IsController
<1>3. PICK d \in DID : d = owner[i]
  BY <1>1
<1>4. controllers'[d] # <<>> /\ GetController(d)' = ZeroAddress
  <2>1. controllers[d] # <<>> /\ GetController(d) = ZeroAddress
    BY <1>3 DEF OwnerLocked
  <2> QED BY <2>1, SessionsOfStep, RegistryStep, LockedStep
<1>5. Same(i) => Frozen(i)
  BY <1>3, <1>4 DEF Frozen, OwnerLocked, GetController
<1> SUFFICES Same(i) \/ Reinitialised(i)
  BY <1>5
<1>6. CASE UNCHANGED ctxVars
  BY <1>6 DEF ctxVars, configVars, aclVars, policyVars, permissionVars
<1>7. ASSUME NEW j \in deployed, Effect(j)
      PROVE  Same(i) \/ Reinitialised(i)
  <2>1. CASE i = j
    BY <1>1, <1>2, <1>7, <2>1 DEF Effect, configVars
  <2>2. CASE i # j
    BY <1>1, <1>7, <2>2 DEF Effect
  <2> QED BY <2>1, <2>2
<1>8. ASSUME NEW id \in ContextId, NEW salt \in Salt, NEW did \in DID,
             CreateContextInstance(id, salt, did)
      PROVE  Same(i)
  <2>1. PICK k : k = <<salt, did, id>>
    OBVIOUS
  <2>2. /\ k \notin deployed /\ contexts[id] = NoInstance
        /\ owner' = [owner EXCEPT ![k] = did]
        /\ didRegistry' = [didRegistry EXCEPT ![k] = "deployed"]
        /\ contexts' = [contexts EXCEPT ![id] = k]
        /\ UNCHANGED <<policies, rolePolicies, rolePermissions>>
    BY <1>8, <2>1 DEF CreateContextInstance, aclVars, policyVars, permissionVars
  <2> QED BY <1>1, <2>2 DEF HInv, CtxTypeOK
<1>9. ASSUME NEW id \in ContextId, NEW sender \in Account, DeleteContextInstance(id, sender)
      PROVE  Same(i)
  <2>1. /\ OnlyOwner(contexts[id], sender)
        /\ contexts' = [contexts EXCEPT ![id] = NoInstance]
        /\ UNCHANGED <<owner, didRegistry, policies, rolePolicies, rolePermissions>>
    BY <1>9 DEF DeleteContextInstance, configVars, aclVars, policyVars, permissionVars
  <2>2. contexts[id] # i
    BY <1>2, <2>1 DEF Owned
  <2> QED BY <2>1, <2>2 DEF HInv, CtxTypeOK
<1> QED BY <1>6, <1>7, <1>8, <1>9, InstancesOfStep DEF InstanceStep

\* An instance whose owner address(0) acts for keeps its policies, what its roles
\* have, its owner and its registration through any later calls but one of its own
\* init (DIDOwnable.sol, SimpleDIDRegistry.sol).
THEOREM LockedOwnersFreeze == HSpec => LockedOwnerFreezes
<1>1. DIDIInv /\ HInv /\ [HNext]_vars =>
        [\A i \in deployed : OwnerLocked(i) =>
           \/ /\ OwnerLocked(i)'
              /\ owner'[i] = owner[i]
              /\ policies'[i] = policies[i]
              /\ rolePolicies'[i] = rolePolicies[i]
              /\ rolePermissions'[i] = rolePermissions[i]
              /\ \A c \in ContextId : contexts[c] = i => contexts'[c] = i
           \/ Reinitialised(i)]_vars
  BY FrozenStep DEF Frozen
<1>2. HSpec => []DIDIInv
  BY HandlerIsRegistry, RegistryInvariant, PTL
<1> QED BY <1>1, <1>2, HandlerInvariant, PTL DEF HSpec, LockedOwnerFreezes

------------------------------------------------------------------------------
\* What is read for a policy does not swing from one verifier to another in a step
\* that redirects neither the reader nor the instance it reads from.
LEMMA VerifierStep ==
  ASSUME HInv, [HNext]_vars, NEW i \in deployed, NEW k \in PolicyKey,
         GetPolicy(i, k) # {NoVerifier}, ~Redirected(i),
         contexts[k[1]] # NoInstance => ~Redirected(contexts[k[1]])
  PROVE  GetPolicy(i, k)' \subseteq GetPolicy(i, k) \cup {NoVerifier}
<1>0. PICK c \in ContextId : c = k[1]
  BY DEF PolicyKey
<1>1. PICK j \in deployed \cup {NoInstance} : j = contexts[c]
  BY DEF HInv, RegisteredExist
<1>2. /\ i \in Deployable /\ deployed \subseteq Deployable /\ NoInstance \notin deployed
      /\ \A x \in Deployable : policies[x][k] \in Verifier \cup {NoVerifier}
  BY NoInstanceAssumption DEF HInv, CtxTypeOK
<1>3. /\ thisContext'[i] = thisContext[i] /\ handler'[i] = handler[i]
      /\ j # NoInstance => thisContext'[j] = thisContext[j] /\ handler'[j] = handler[j]
  BY <1>0, <1>1 DEF Redirected
<1>4. ASSUME contexts'[c] \in {j, NoInstance},
             \A x \in Deployable : policies'[x][k] = policies[x][k] \/ policies[x][k] = NoVerifier,
             \A x \in Deployable : policies'[x][k] \in Verifier \cup {NoVerifier}
      PROVE  GetPolicy(i, k)' \subseteq GetPolicy(i, k) \cup {NoVerifier}
  <2>1. CASE c = thisContext[i]
    BY <1>0, <1>2, <1>3, <1>4, <2>1 DEF GetPolicy
  <2>2. CASE AsksForeign(i, c)
    <3>1. GetPolicy(i, k) = Verifier \cup {NoVerifier}
      BY <1>0, <2>2 DEF GetPolicy, AsksForeign
    <3>2. contexts'[c] # NoInstance => contexts'[c] \in Deployable
      BY <1>1, <1>2, <1>4
    <3>3. GetPolicy(i, k)' \subseteq Verifier \cup {NoVerifier}
      BY <1>0, <1>2, <1>4, <3>2 DEF GetPolicy
    <3> QED BY <3>1, <3>3
  <2>3. CASE c # thisContext[i] /\ ~AsksForeign(i, c)
    <3>1. j # NoInstance /\ thisContext[j] = c /\ GetPolicy(i, k) = {policies[j][k]}
      BY <1>0, <1>1, <2>3 DEF GetPolicy
    <3>2. GetPolicy(i, k)' \subseteq {policies'[j][k], NoVerifier}
      BY <1>0, <1>1, <1>3, <1>4, <2>3, <3>1 DEF GetPolicy, AsksForeign
    <3> QED BY <1>1, <1>2, <1>4, <3>1, <3>2
  <2> QED BY <2>1, <2>2, <2>3
<1>5. CASE UNCHANGED ctxVars
  BY <1>1, <1>2, <1>4, <1>5 DEF ctxVars, aclVars, policyVars
<1>6. ASSUME NEW e \in deployed, Effect(e)
      PROVE  GetPolicy(i, k)' \subseteq GetPolicy(i, k) \cup {NoVerifier}
  BY <1>1, <1>4, <1>6 DEF Effect, CtxTypeOK
<1>7. ASSUME NEW id \in ContextId, NEW salt \in Salt, NEW did \in DID,
             CreateContextInstance(id, salt, did)
      PROVE  GetPolicy(i, k)' \subseteq GetPolicy(i, k) \cup {NoVerifier}
  <2>1. /\ UNCHANGED policies /\ contexts[id] = NoInstance
        /\ \A x \in ContextId \ {id} : contexts'[x] = contexts[x]
    BY <1>7 DEF CreateContextInstance, aclVars, policyVars, HInv, CtxTypeOK
  <2>2. CASE c # id
    BY <1>1, <1>2, <1>4, <2>1, <2>2
  <2>3. CASE c = id /\ (c = thisContext[i] \/ handler[i] = "foreign")
    BY <1>0, <1>3, <2>1, <2>3 DEF GetPolicy, AsksForeign
  <2>4. CASE c = id /\ c # thisContext[i] /\ handler[i] # "foreign"
    BY <1>0, <2>1, <2>4 DEF GetPolicy, AsksForeign
  <2> QED BY <2>2, <2>3, <2>4
<1>8. ASSUME NEW id \in ContextId, NEW sender \in Account, DeleteContextInstance(id, sender)
      PROVE  GetPolicy(i, k)' \subseteq GetPolicy(i, k) \cup {NoVerifier}
  <2>1. UNCHANGED policies /\ contexts'[c] \in {j, NoInstance}
    BY <1>1, <1>8 DEF DeleteContextInstance, aclVars, policyVars, HInv, CtxTypeOK
  <2> QED BY <1>2, <1>4, <2>1
<1> QED BY <1>5, <1>6, <1>7, <1>8, InstancesOfStep DEF InstanceStep

\* What an instance reads for a policy never passes from one verifier to another
\* but by a call of init that redirects the instance or the one it reads from
\* (PolicyExtension.sol).
THEOREM NoPolicySwings == HSpec => NoVerifierSwing
<1>1. HInv /\ [HNext]_vars =>
        [\A i \in deployed, k \in PolicyKey :
           \/ GetPolicy(i, k)' \subseteq GetPolicy(i, k) \cup {NoVerifier}
           \/ GetPolicy(i, k) = {NoVerifier}
           \/ Redirected(i)
           \/ contexts[k[1]] # NoInstance /\ Redirected(contexts[k[1]])]_vars
  BY VerifierStep
<1> QED BY <1>1, HandlerInvariant, PTL DEF HSpec, NoVerifierSwing
==============================================================================
