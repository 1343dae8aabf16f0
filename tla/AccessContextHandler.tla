------------------------ MODULE AccessContextHandler ------------------------
(***************************************************************************)
(* contracts/src/AccessContextHandler.sol and the whole on-chain system    *)
(* it composes: the DID registry, the session registry, the access         *)
(* context instances and the handler that creates them and fronts them.    *)
(***************************************************************************)
EXTENDS AccessContext, SessionRegistry

CONSTANTS NoRegistry,       \* address(0)
          RegistryAddress,  \* the deployed SessionRegistry
          ForeignRegistry   \* any other contract: its answers are its own

ASSUME RegistryAssumption ==
  NoRegistry # RegistryAddress /\ ForeignRegistry \notin {NoRegistry, RegistryAddress}

VARIABLE sessionRegistry    \* sessionRegistry_ of the handler

vars == <<ctxVars, sessVars, didVars, sessionRegistry>>

\* The handler is deployed without a session registry, the session registry
\* with the handler's address.
HInit ==
  /\ DIDInit
  /\ SessInit
  /\ contextHandler = HandlerAddress
  /\ CtxInit
  /\ sessionRegistry = NoRegistry

------------------------------------------------------------------------------
\* MUTANT of CreateContextInstance: a clone that exists is taken into use again.
CreateContextInstance_Reuse(id, salt, did) ==
  LET i == <<salt, did, id>>
  IN /\ i \in Deployable
     /\ did # EmptyDID
     /\ contexts[id] = NoInstance
     /\ deployed' = deployed \cup {i}
     /\ owner' = [owner EXCEPT ![i] = did]
     /\ thisContext' = [thisContext EXCEPT ![i] = id]
     /\ handler' = [handler EXCEPT ![i] = "deployed"]
     /\ didRegistry' = [didRegistry EXCEPT ![i] = "deployed"]
     /\ contexts' = [contexts EXCEPT ![id] = i]
     /\ UNCHANGED <<aclVars, sessVars, didVars, sessionRegistry>>

\* Anyone may create a context for any owner DID.  The clone's address is made
\* from salt, owner and id: a second clone of the same three is a revert.
CreateContextInstance(id, salt, did) ==
  LET i == <<salt, did, id>>
  IN /\ i \in Deployable
     /\ contexts[id] = NoInstance
     /\ i \notin deployed
     /\ did # EmptyDID
     /\ deployed' = deployed \cup {i}
     /\ owner' = [owner EXCEPT ![i] = did]
     /\ thisContext' = [thisContext EXCEPT ![i] = id]
     /\ handler' = [handler EXCEPT ![i] = "deployed"]
     /\ didRegistry' = [didRegistry EXCEPT ![i] = "deployed"]
     /\ contexts' = [contexts EXCEPT ![id] = i]
     /\ UNCHANGED <<aclVars, sessVars, didVars, sessionRegistry>>

\* onlyContextAdmin asks the registered instance; its clone stays on chain.
DeleteContextInstance(id, sender) ==
  /\ contexts[id] # NoInstance
  /\ OnlyOwner(contexts[id], sender)
  /\ contexts' = [contexts EXCEPT ![id] = NoInstance]
  /\ UNCHANGED <<deployed, configVars, aclVars, sessVars, didVars, sessionRegistry>>

\* Anyone may point the handler to any contract.
SetSessionRegistry(address) ==
  /\ sessionRegistry' = address
  /\ UNCHANGED <<ctxVars, sessVars, didVars>>

\* grantRole, forwarded to the instance registered for the context.
ForwardGrantRole(id, role, did, claimed) ==
  /\ contexts[id] # NoInstance
  /\ GrantRole(contexts[id], role, did, claimed)
  /\ UNCHANGED <<sessVars, didVars, sessionRegistry>>

\* startSession, forwarded to the session registry; a foreign one does not touch
\* the sessions of the deployed.
ForwardStartSession(id, did) ==
  \/ sessionRegistry = RegistryAddress /\ StartSession(id, did)
  \/ sessionRegistry = ForeignRegistry /\ UNCHANGED sessVars

StartSessionOnly(id, did) ==
  /\ ForwardStartSession(id, did)
  /\ UNCHANGED <<ctxVars, didVars, sessionRegistry>>

\* startSession with a role: one transaction grants the role and opens the
\* session, or reverts and does neither.
StartSessionWithRole(context, role, did, claimed, id) ==
  /\ contexts[context] # NoInstance
  /\ GrantRole(contexts[context], role, did, claimed)
  /\ ForwardStartSession(id, did)
  /\ UNCHANGED <<didVars, sessionRegistry>>

HandlerCall ==
  \/ \E id \in ContextId, salt \in Salt, did \in DID : CreateContextInstance(id, salt, did)
  \/ \E id \in ContextId, sender \in Account : DeleteContextInstance(id, sender)
  \/ \E address \in {NoRegistry, RegistryAddress, ForeignRegistry} : SetSessionRegistry(address)
  \/ \E id \in SessionId, did \in DID : StartSessionOnly(id, did)
  \/ \E id \in ContextId, role \in Role, did \in DID, claimed \in SUBSET PolicyKey :
       \/ ForwardGrantRole(id, role, did, claimed)
       \/ \E session \in SessionId : StartSessionWithRole(id, role, did, claimed, session)

HNext ==
  \/ HandlerCall
  \/ ContextCall /\ UNCHANGED <<sessVars, didVars, sessionRegistry>>
  \/ SessionCall /\ UNCHANGED <<ctxVars, didVars, sessionRegistry>>
  \/ DIDNext /\ UNCHANGED <<ctxVars, sessVars, sessionRegistry>>

HSpec == HInit /\ [][HNext]_vars

------------------------------------------------------------------------------
\* isSession(id, did, context, role) may answer TRUE; a foreign registry vouches
\* for any session.
HasAccess(id, did, context, role) ==
  /\ \/ sessionRegistry = RegistryAddress /\ IsSession(id, did)
     \/ sessionRegistry = ForeignRegistry
  /\ contexts[context] # NoInstance
  /\ <<role, did>> \in hasRole[contexts[context]]

\* Nobody will ever act for the owner of instance i again: it asks the deployed
\* DID registry, where address(0) acts for the owner.
OwnerLocked(i) ==
  /\ didRegistry[i] = "deployed"
  /\ controllers[owner[i]] # <<>>
  /\ GetController(owner[i]) = ZeroAddress

\* Instance i is given another context id or handler.
Redirected(i) == thisContext'[i] # thisContext[i] \/ handler'[i] # handler[i]

------------------------------------------------------------------------------

\* What an instance may read for a policy swings from one verifier to another
\* only when init redirects that instance, or the one it reads from: a verifier
\* is registered once, and when another context is deleted and created again
\* there is a moment without any (_registerPolicy, _getPolicy).
NoVerifierSwing ==
  [][\A i \in deployed, k \in PolicyKey :
       \/ GetPolicy(i, k)' \subseteq GetPolicy(i, k) \cup {NoVerifier}
       \/ GetPolicy(i, k) = {NoVerifier}
       \/ Redirected(i)
       \/ contexts[k[1]] # NoInstance /\ Redirected(contexts[k[1]])]_vars

\* Once address(0) acts for the owner of an instance, no later calls of the DID
\* registry, the handler and the instances bring anybody control of it, nor
\* change its policies, what its roles have, its owner or its registration: all
\* that can is a call of init, which anyone may make and which leaves the
\* policies and roles to the new owner as they are (onlyOwner, init).
LockedOwnerFreezes ==
  [][\A i \in deployed : OwnerLocked(i) =>
       \/ /\ OwnerLocked(i)'
          /\ owner'[i] = owner[i]
          /\ policies'[i] = policies[i]
          /\ rolePolicies'[i] = rolePolicies[i]
          /\ rolePermissions'[i] = rolePermissions[i]
          /\ \A c \in ContextId : contexts[c] = i => contexts'[c] = i
       \/ Reinitialised(i)]_vars

\* A user comes to pass the handler's check for a role only by a step that
\* grants that role in the instance registered before and after it, starts that
\* session, or points the handler to another session registry, which anyone may
\* do: no passing of time, deletion and new creation of contexts, call of init,
\* change of owner or of controllers opens access (isSession).
AccessNeedsGrantOrSession ==
  [][\A id \in SessionId, did \in DID, c \in ContextId, r \in Role :
       ~HasAccess(id, did, c, r) /\ HasAccess(id, did, c, r)' =>
         \/ contexts'[c] = contexts[c] /\ <<r, did>> \notin hasRole[contexts[c]]
         \/ ~Exists(id)
         \/ sessionRegistry' # sessionRegistry]_vars
==============================================================================
