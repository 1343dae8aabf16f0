------------------------------ MODULE AccessGate -----------------------------
(***************************************************************************)
(* core/service/auth of resource users and VerifySession of the owner      *)
(* (core/service/accesscontrol, called by the middleware of the file       *)
(* routes), over OwnerService: users ask the chain for the role of a       *)
(* registered resource and for a session, and the owner's gate reads the   *)
(* chain up to three times before it lets a token pass, while others grant *)
(* and revoke roles.  A user's service has a wallet of its own; it runs    *)
(* one call at a time here.                                                *)
(***************************************************************************)
EXTENDS OwnerService

CONSTANTS User,   \* resource users, by the DIDs of their wallets
          Self    \* the user whose DID is the owner's, if it is one of them

VARIABLES calling,    \* what the call of each user's service waits for
          left,       \* unmined transactions of users whose calls ended early, by kind
          granted,    \* <<user, context>>: the grants of the role that were mined
          roles,      \* <<user, context>>: who holds the role, and where
          opened,     \* users for whom a session was started on chain
          open,       \* users whose session is neither revoked nor expired
          kept,       \* users whose service stored the role
          tokens,     \* users whose service answered with a session token
          recorded,   \* users whose session the owner's service has stored
          gate,       \* the verification of each user's token: its next step or answer
          seen,       \* the context address it has read
          during      \* history: what the chain had for the user since it began

chainVars == <<granted, roles, opened, open>>
userVars == <<calling, left, kept, tokens>>
gateVars == <<recorded, gate, seen>>
allVars == <<vars, chainVars, userVars, gateVars, during>>

GateInit ==
  /\ Init
  /\ calling = [u \in User |-> "nothing"]
  /\ left = {}
  /\ granted = {} /\ roles = {}
  /\ opened = {} /\ open = {}
  /\ kept = {}
  /\ tokens = {}
  /\ recorded = {}
  /\ gate = [u \in User |-> "idle"]
  /\ seen = [u \in User |-> ZeroAddress]
  /\ during = [u \in User |-> {}]

Await(u, step) == calling' = [calling EXCEPT ![u] = step]

------------------------------------------------------------------------------
\* MUTANT of Send: the call goes on as soon as the transaction is sent.
Send_NoWait(u, kind) ==
  /\ calling[u] = "nothing"
  /\ left' = left \cup {<<u, kind>>}
  /\ Await(u, IF kind = "grant" THEN "store" ELSE "nothing")
  /\ tokens' = IF kind = "start" THEN tokens \cup {u} ELSE tokens
  /\ UNCHANGED <<chainVars, kept>>

\* GrantRole and StartSession send a transaction and wait until it is mined,
\* whatever earlier calls have left unmined.
Send(u, kind) ==
  /\ calling[u] = "nothing"
  /\ Await(u, kind)
  /\ UNCHANGED <<chainVars, left, kept, tokens>>

\* The handler contract forwards a grant to the context registered for the id;
\* what the proof and the context say of it is in AccessContext.
GrantIn(u, context) ==
  /\ context # ZeroAddress
  /\ granted' = granted \cup {<<u, context>>}
  /\ roles' = roles \cup {<<u, context>>}
  /\ UNCHANGED <<opened, open>>

\* A session under a new id, for the DID of the wallet.
StartOnChain(u) ==
  /\ opened' = opened \cup {u}
  /\ open' = open \cup {u}
  /\ UNCHANGED <<granted, roles>>

Execute(u, kind) ==
  IF kind = "grant" THEN GrantIn(u, registered) ELSE StartOnChain(u)

\* The transaction a call waits for is mined: a role is stored next, a token is
\* answered, and an error ends the call.
MineAwaited(u, ok) ==
  /\ calling[u] \in {"grant", "start"}
  /\ IF ok THEN Execute(u, calling[u]) ELSE UNCHANGED chainVars
  /\ Await(u, IF ok /\ calling[u] = "grant" THEN "store" ELSE "nothing")
  /\ tokens' = IF ok /\ calling[u] = "start" THEN tokens \cup {u} ELSE tokens
  /\ UNCHANGED <<left, kept>>

\* One an earlier call has left is mined; there may be more of its kind.
MineLeft(u, kind, ok) ==
  /\ <<u, kind>> \in left
  /\ left' \in {left, left \ {<<u, kind>>}}
  /\ IF ok THEN Execute(u, kind) ELSE UNCHANGED chainVars
  /\ UNCHANGED <<calling, kept, tokens>>

InsertRole(u) ==
  /\ calling[u] = "store"
  /\ kept' = kept \cup {u}
  /\ Await(u, "nothing")
  /\ UNCHANGED <<chainVars, left, tokens>>

\* The user's server stops, or the store fails; what was sent may still be mined.
AbandonCall(u) ==
  /\ calling[u] # "nothing"
  /\ Await(u, "nothing")
  /\ left' = IF calling[u] = "store" THEN left ELSE left \cup {<<u, calling[u]>>}
  /\ UNCHANGED <<chainVars, kept, tokens>>

\* Other clients of the contracts.  grantRole with an empty list of policies asks
\* for none, of the handler or of a context that exists, such as one the gate has
\* read; revokeRole asks for nothing but that the role is there; and sessions are
\* revoked and expire.
GrantElsewhere(u) ==
  /\ \E context \in {registered} \cup {seen[v] : v \in User} : GrantIn(u, context)
  /\ UNCHANGED userVars

RevokeElsewhere(u) ==
  /\ \E context \in Address : roles' = roles \ {<<u, context>>}
  /\ UNCHANGED <<granted, opened, open, userVars>>

EndSession(u) ==
  /\ open' = open \ {u}
  /\ UNCHANGED <<granted, roles, opened, userVars>>

------------------------------------------------------------------------------
GateTo(u, step) == gate' = [gate EXCEPT ![u] = step]

\* CreateSession: a token whose signature the issuer's DID confirms is stored.  No
\* route leads here.
CreateSession(u) ==
  /\ u \in tokens
  /\ recorded' = recorded \cup {u}
  /\ UNCHANGED <<gate, seen>>

\* checkRoleForSession reads the address of the context ...
ReadContext(u) ==
  /\ gate[u] \in {"idle", "admitted", "verified", "refused"}
  /\ seen' = [seen EXCEPT ![u] = registered]
  /\ GateTo(u, "role")
  /\ UNCHANGED recorded

\* MUTANT of HasRole: the role is taken from the session that is stored.
HasRole_Stored(u) ==
  /\ gate[u] = "role"
  /\ GateTo(u, IF u \in recorded \/ <<u, seen[u]>> \in roles THEN "session" ELSE "refused")
  /\ UNCHANGED <<recorded, seen>>

\* ... and asks the contract there; no contract is an error.
HasRole(u) ==
  /\ gate[u] = "role"
  /\ GateTo(u, IF <<u, seen[u]>> \in roles THEN "session" ELSE "refused")
  /\ UNCHANGED <<recorded, seen>>

\* A token whose session is not stored, or could not be read, is admitted; the
\* others are checked with the chain.
GetSession(u) ==
  /\ gate[u] = "session"
  /\ \/ GateTo(u, "admitted")
     \/ u \in recorded /\ GateTo(u, "check")
  /\ UNCHANGED <<recorded, seen>>

\* isSession for the DID of the owner's wallet, and as long as it has not expired;
\* the session is then verified and stored again.
CheckSession(u) ==
  /\ gate[u] = "check"
  /\ GateTo(u, IF u = Self /\ u \in open THEN "verified" ELSE "refused")
  /\ UNCHANGED <<recorded, seen>>

FailVerification(u) ==
  /\ gate[u] \in {"role", "session", "check"}
  /\ GateTo(u, "refused")
  /\ UNCHANGED <<recorded, seen>>

VerifySession(u) ==
  ReadContext(u) \/ HasRole(u) \/ GetSession(u) \/ CheckSession(u) \/ FailVerification(u)

UserStep(u) ==
  \/ \E kind \in {"grant", "start"} : Send(u, kind)
  \/ \E ok \in BOOLEAN : MineAwaited(u, ok)
  \/ \E ok \in BOOLEAN, kind \in {"grant", "start"} : MineLeft(u, kind, ok)
  \/ InsertRole(u)
  \/ AbandonCall(u)
  \/ GrantElsewhere(u) \/ RevokeElsewhere(u) \/ EndSession(u)

\* What the chain has for u now: the contexts in which u has the role, and
\* whether a session of u is open.
OnChain(u) ==
  {context \in Address : <<u, context>> \in roles}
    \cup (IF u \in open THEN {"session"} ELSE {})

\* The history of a verification starts anew when it reads the context.
Observe ==
  during' = [u \in User |->
    (IF gate[u] # "role" /\ gate'[u] = "role" THEN {} ELSE during[u]) \cup OnChain(u)']

GateNext ==
  /\ \/ Next /\ UNCHANGED <<chainVars, userVars, gateVars>>
     \/ \E u \in User :
          \/ UserStep(u) /\ UNCHANGED <<vars, gateVars>>
          \/ (CreateSession(u) \/ VerifySession(u)) /\ UNCHANGED <<vars, chainVars, userVars>>
  /\ Observe

GateSpec == GateInit /\ [][GateNext]_allVars

\* The owner's fairness, whatever users do.
GateFairSpec ==
  /\ GateSpec
  /\ WF_allVars(NewBlock /\ UNCHANGED <<chainVars, userVars, gateVars>> /\ Observe)
  /\ \A c \in Call :
       WF_allVars(CallStep(c) /\ UNCHANGED <<chainVars, userVars, gateVars>> /\ Observe)

------------------------------------------------------------------------------
\* What a user's service stores as a role, and answers as a session, was granted
\* and started on chain, although its server may stop while a transaction is under
\* way and be asked again, with what earlier calls left mined in any order
\* (core/service/auth/service.go:94-121,139-169).
AnsweredIsOnChain ==
  /\ \A u \in kept : \E context \in Address : <<u, context>> \in granted
  /\ tokens \subseteq opened

\* The owner's gate lets a token pass only if its subject has held the role, in the
\* context the gate had read, at a moment of that verification, and a token whose
\* session it knows only if the chain had a session open at such a moment: roles
\* granted, checked or stored earlier count for nothing, while roles and sessions
\* are revoked and granted again and the context is replaced between the steps
\* (core/service/accesscontrol/service.go:255-312).
HeldMeanwhile ==
  \A u \in User :
    /\ gate[u] \in {"admitted", "verified"} => seen[u] \in during[u]
    /\ gate[u] = "verified" => "session" \in during[u]
==============================================================================
