--------------------------- MODULE SessionRegistry ---------------------------
(***************************************************************************)
(* contracts/src/SessionRegistry.sol: the sessions a user's DID has open   *)
(* on chain.  A session expires by block time but keeps its identifier     *)
(* until it is revoked.  Tokens are opaque and left out.                   *)
(***************************************************************************)
EXTENDS DIDRegistry

CONSTANTS SessionId,
          NoSession,        \* a deleted or never written entry of _sessions
          HandlerAddress,   \* the deployed AccessContextHandler
          SessionDuration,  \* 1 days, in units of block time
          MaxTime           \* bound: the last block time explored

ASSUME DurationAssumption == SessionDuration \in Nat \ {0}
ASSUME MaxTimeAssumption == MaxTime \in Nat

VARIABLES sessions,         \* _sessions
          contextHandler,   \* contextHandler_ of the recipient
          now               \* block.timestamp

sessVars == <<sessions, contextHandler, now>>

Exists(id) == sessions[id] # NoSession

\* expiration of the entry; a deleted struct reads as zeros.
Expiration(id) == IF Exists(id) THEN sessions[id].expiration ELSE 0

\* isSessionValid looks at the expiration alone.
IsSessionValid(id) == Expiration(id) >= now

IsSession(id, user) ==
  /\ Exists(id)
  /\ IsSessionValid(id)
  /\ sessions[id].user = user

------------------------------------------------------------------------------
\* The constructor takes the address of the context handler as it is given.
SessInit ==
  /\ sessions = [id \in SessionId |-> NoSession]
  /\ contextHandler \in Account \cup {HandlerAddress}
  /\ now = 1

\* MUTANT of StartSession: the duration is taken twice.
StartSession_Long(id, user) ==
  /\ ~Exists(id)
  /\ sessions' = [sessions EXCEPT
       ![id] = [user |-> user, expiration |-> now + 2 * SessionDuration]]
  /\ UNCHANGED <<contextHandler, now>>

\* MUTANT of StartSession: an identifier is free again once its session expired.
StartSession_Expired(id, user) ==
  /\ ~IsSessionValid(id)
  /\ sessions' = [sessions EXCEPT
       ![id] = [user |-> user, expiration |-> now + SessionDuration]]
  /\ UNCHANGED <<contextHandler, now>>

\* Anyone may start a session for any DID, under an identifier no session has.
StartSession(id, user) ==
  /\ ~Exists(id)
  /\ sessions' = [sessions EXCEPT
       ![id] = [user |-> user, expiration |-> now + SessionDuration]]
  /\ UNCHANGED <<contextHandler, now>>

\* MUTANT of RevokeSession: asks for the context handler before the user, so the
\* user's DID need not be found.
RevokeSession_HandlerFirst(id, sender) ==
  /\ Exists(id)
  /\ sender = contextHandler \/ IsController(sessions[id].user, sender)
  /\ sessions' = [sessions EXCEPT ![id] = NoSession]
  /\ UNCHANGED <<contextHandler, now>>

\* onlyUserOrContextHandler asks the DID registry first: the call reverts when
\* the user's identity is not found, whoever sends it.
RevokeSession(id, sender) ==
  /\ Exists(id)
  /\ IdentityFound(sessions[id].user)
  /\ IsController(sessions[id].user, sender) \/ sender = contextHandler
  /\ sessions' = [sessions EXCEPT ![id] = NoSession]
  /\ UNCHANGED <<contextHandler, now>>

SetContextHandler(sender, new) ==
  /\ sender = contextHandler
  /\ contextHandler' = new
  /\ UNCHANGED <<sessions, now>>

\* A later block.
NextBlock ==
  /\ now < MaxTime
  /\ now' = now + 1
  /\ UNCHANGED <<sessions, contextHandler>>

SessionCall ==
  \/ \E id \in SessionId, user \in DID : StartSession(id, user)
  \/ \E id \in SessionId, sender \in Account : RevokeSession(id, sender)
  \/ \E sender \in Account, new \in Account \cup {HandlerAddress} :
       SetContextHandler(sender, new)
  \/ NextBlock

------------------------------------------------------------------------------
\* The session registry beside the DID registry it asks.
SessVars == <<sessVars, didVars>>

SRInit == DIDInit /\ SessInit

SRNext ==
  \/ SessionCall /\ UNCHANGED didVars
  \/ DIDNext /\ UNCHANGED sessVars

SRSpec == SRInit /\ [][SRNext]_SessVars

------------------------------------------------------------------------------
\* isSessionValid answers FALSE for an identifier no session has, although it
\* never looks whether one exists, and a session is never valid longer than one
\* duration from now.
ValidOnlyIfOpen ==
  \A id \in SessionId :
    /\ IsSessionValid(id) => Exists(id)
    /\ Expiration(id) <= now + SessionDuration

\* When the identity of a session's user is locked, by a registry call that may
\* come long after the session started, the session keeps its identifier for
\* ever: neither a controller nor the context handler can revoke it.
LockedSessionStays ==
  \A id \in SessionId, d \in DID :
    [](Exists(id) /\ sessions[id].user = d
         /\ controllers[d] # <<>> /\ GetController(d) = ZeroAddress
         /\ Len(controllers[d]) > 1
       => [](Exists(id) /\ sessions[id].user = d))

\* A session that expired keeps its identifier and never becomes valid again,
\* whatever is started, revoked or handed over meanwhile: nobody renews it or
\* takes it over for another user, unless it is revoked first, and that takes a
\* controller of its user's identity or the context handler, of that moment.
NeverRenewed ==
  [][\A id \in SessionId : Exists(id) =>
       \/ sessions'[id] = sessions[id] /\ (IsSessionValid(id)' => IsSessionValid(id))
       \/ /\ sessions'[id] = NoSession
          /\ \E sender \in Account :
               IsController(sessions[id].user, sender) \/ sender = contextHandler]_SessVars
==============================================================================
