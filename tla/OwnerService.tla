----------------------------- MODULE OwnerService -----------------------------
(***************************************************************************)
(* core/service/accesscontrol of a resource owner: CreateAccessContext and *)
(* RegisterResource, each a process that reads the chain, sends a          *)
(* transaction through the shared wallet, waits until it is mined, and, to *)
(* create, reads the chain again and stores the address.  In between other *)
(* calls run and other clients use the contracts; a call ends early when   *)
(* an access to the node or the store fails or the server stops.  The      *)
(* context is the one whose id is the DID of the wallet.                   *)
(***************************************************************************)
EXTENDS Wallet

CONSTANTS Creation,        \* the calls of CreateAccessContext; the others register
          ZeroAddress,     \* address(0)
          NotStored,       \* no record in the store
          ForeignContext,  \* a clone another client made for a DID of its own
          GivenContext     \* a clone another client made for the wallet's DID

ASSUME CreationAssumption == Creation \subseteq Call
ASSUME ContextAssumption ==
  /\ ForeignContext \notin Creation \cup {GivenContext}
  /\ ZeroAddress \notin Creation \cup {GivenContext, ForeignContext}
  /\ NotStored \notin Creation \cup {GivenContext, ForeignContext, ZeroAddress}

VARIABLES pc,           \* the next step of each call, or how it ended
          address,      \* address[c]: the context address call c read last
          registered,   \* the address the handler contract has for the context
          stored,       \* the address in the service's store
          resources     \* the registrations whose role is set up, with the context it is set up in

vars == <<walletVars, pc, address, registered, stored, resources>>

\* Clones owned by the wallet's DID; a clone is named by the call that made it.
OwnContext == Creation \cup {GivenContext}
Address == OwnContext \cup {ForeignContext, ZeroAddress}

Ended == {"done", "failed"}

Init ==
  /\ WalletInit
  /\ pc = [c \in Call |-> IF c \in Creation THEN "start" ELSE "lookup"]
  /\ address = [c \in Call |-> ZeroAddress]
  /\ registered = ZeroAddress
  /\ stored = NotStored
  /\ resources = {}

GoTo(c, step) == pc' = [pc EXCEPT ![c] = step]
ReadAddress(c, value) == address' = [address EXCEPT ![c] = value]

------------------------------------------------------------------------------

\* A stored context is the answer without a look at the chain.
CheckAccessContextExists(c) ==
  /\ pc[c] = "start"
  /\ IF stored = NotStored
     THEN GoTo(c, "lookup") /\ UNCHANGED address
     ELSE GoTo(c, "done") /\ ReadAddress(c, stored)
  /\ UNCHANGED <<walletVars, registered, stored, resources>>

\* CreateAccessContext answers a context that is registered and does not store
\* it; RegisterResource goes on with whatever address it reads.
GetAccessContextAddress(c) ==
  /\ pc[c] = "lookup"
  /\ ReadAddress(c, registered)
  /\ GoTo(c, IF c \in Creation /\ registered # ZeroAddress THEN "done" ELSE "options")
  /\ UNCHANGED <<walletVars, registered, stored, resources>>

TransactOptions(c) ==
  /\ pc[c] = "options"
  /\ ToTransactOpts(c)
  /\ GoTo(c, "send")
  /\ UNCHANGED <<pending, ledger, address, registered, stored, resources>>

Transact(c) ==
  /\ pc[c] = "send"
  /\ IF Accepts(c) THEN SendTransaction(c) /\ GoTo(c, "wait")
     ELSE GoTo(c, "failed") /\ UNCHANGED pending
  /\ UNCHANGED <<options, ledger, address, registered, stored, resources>>

\* MUTANT of WaitMined: goes on as soon as the transaction is sent.
WaitMined_Sent(c) ==
  /\ pc[c] = "wait"
  /\ GoTo(c, IF c \in Creation THEN "readBack" ELSE "done")
  /\ UNCHANGED <<walletVars, address, registered, stored, resources>>

WaitMined(c) ==
  /\ pc[c] = "wait"
  /\ \E ok \in BOOLEAN :
       /\ Receipt(c, ok)
       /\ GoTo(c, IF ~ok THEN "failed" ELSE IF c \in Creation THEN "readBack" ELSE "done")
  /\ UNCHANGED <<walletVars, address, registered, stored, resources>>

ReadBack(c) ==
  /\ pc[c] = "readBack"
  /\ ReadAddress(c, registered)
  /\ GoTo(c, "insert")
  /\ UNCHANGED <<walletVars, registered, stored, resources>>

InsertAccessContext(c) ==
  /\ pc[c] = "insert"
  /\ stored' = address[c]
  /\ GoTo(c, "done")
  /\ UNCHANGED <<walletVars, address, registered, resources>>

\* A failed access to the node or the store, or a stop of the server.
Abandon(c) ==
  /\ pc[c] \notin Ended
  /\ GoTo(c, "failed")
  /\ UNCHANGED <<walletVars, address, registered, stored, resources>>

CreateAccessContext(c) ==
  \/ CheckAccessContextExists(c)
  \/ ReadBack(c)
  \/ InsertAccessContext(c)

CallStep(c) ==
  \/ CreateAccessContext(c)
  \/ GetAccessContextAddress(c)
  \/ TransactOptions(c)
  \/ Transact(c)
  \/ WaitMined(c)

------------------------------------------------------------------------------
\* createContextInstance: reverts when the id is taken.
CreateContextInstance(c) ==
  /\ Mine(registered = ZeroAddress)
  /\ registered' = IF registered = ZeroAddress THEN c ELSE registered
  /\ UNCHANGED resources

\* setupRole, sent to the address the call read: an address without code accepts
\* any transaction, a clone the wallet's DID does not own reverts, and the
\* wallet's own may revert for other reasons.
SetupRole(c) ==
  /\ IF address[c] = ZeroAddress THEN Mine(TRUE) /\ UNCHANGED resources
     ELSE \E ok \in {FALSE} \cup {address[c] \in OwnContext} :
            /\ Mine(ok)
            /\ resources' = IF ok THEN resources \cup {<<c, address[c]>>} ELSE resources
  /\ UNCHANGED registered

NewBlock ==
  /\ pending # <<>>
  /\ IF Head(pending) \in Creation THEN CreateContextInstance(Head(pending))
     ELSE SetupRole(Head(pending))
  /\ UNCHANGED <<options, pc, address, stored>>

\* Another client registers a clone under the id, for either owner, and takes
\* back the one its own DID owns.  Owners do not change here, and the service
\* has no operation that deletes a context.
CreateElsewhere ==
  /\ registered = ZeroAddress
  /\ registered' \in {ForeignContext, GivenContext}
  /\ UNCHANGED <<walletVars, pc, address, stored, resources>>

DeleteElsewhere ==
  /\ registered = ForeignContext
  /\ registered' = ZeroAddress
  /\ UNCHANGED <<walletVars, pc, address, stored, resources>>

Next ==
  \/ \E c \in Call : CallStep(c) \/ Abandon(c)
  \/ NewBlock
  \/ CreateElsewhere
  \/ DeleteElsewhere

Spec == Init /\ [][Next]_vars

\* Blocks keep being produced, and a call that was started is run on: nothing
\* but a receipt ends its wait.
Fairness == WF_vars(NewBlock) /\ \A c \in Call : WF_vars(CallStep(c))

FairSpec == Spec /\ Fairness

------------------------------------------------------------------------------
\* What the store says about the context is what the chain says: the address is
\* written long after the check that found none, and only after the call's own
\* creation was mined (core/service/accesscontrol/service.go:190-238).
StoredIsRegistered ==
  stored # NotStored => stored = registered /\ stored # ZeroAddress

\* A registration that was sent to a context and answered without an error has
\* set its role up, and the context is still the one registered for the owner,
\* although it read the address long before (service.go:155-187).
RegisteredInContext ==
  \A c \in Call \ Creation :
    pc[c] = "done" /\ address[c] # ZeroAddress =>
      <<c, registered>> \in resources

\* A call that waits for its transaction stops waiting when the transaction is
\* mined, unless another call's has taken its nonce (rpc/service.go:232-249).
WaitEnds ==
  \A c \in Call : pc[c] = "wait" ~> pc[c] # "wait" \/ TakenOver(c)
==============================================================================
